---------------------------- MODULE Spec2Model ----------------------------
(***************************************************************************)
(* A model of the Gmail Signature Manager for Google Workspace.            *)
(*                                                                         *)
(* Spec        one invocation of runSignatureManager: the                  *)
(*             configuration check, the key and access checks, the         *)
(*             directory step, SignatureService.processUsers (batches,     *)
(*             retry, dry run) and the returned result.                    *)
(* IdemSpec    Spec followed by a second invocation on the same data.      *)
(* DrySpec     testDryRun followed by runSignatureManager.                 *)
(* DirSpec     UserFilterService.getAllowedUsers: access test, directory   *)
(*             request, filter, release of the service.                    *)
(* LoadSpec    TemplateManager.loadTemplate called repeatedly while the    *)
(*             cache entry and the Drive file change.                      *)
(* PermSpec    AuthService.testAllPermissions, alone and inside            *)
(*             runAuthDiagnostics.                                         *)
(* FilterSpec  UserFilterService._filterUsers applied to bounded directory *)
(*             listings under bounded rule sets.                           *)
(* OUSpec      the same function under rule sets that name OUs.            *)
(* TemplateSpec  TemplateManager.applyTemplate applied to bounded          *)
(*             templates and value lists.                                  *)
(*                                                                         *)
(* Text that the code takes apart (e-mail addresses, OU paths, signature   *)
(* HTML) is a sequence of one-character strings; text it only passes on    *)
(* (identity keys of the pipeline, messages) is a plain string.            *)
(***************************************************************************)
EXTENDS Integers, Sequences, FiniteSets, TLC

(***************************************************************************)
(* Bounds of the model.                                                    *)
(***************************************************************************)
MaxUsers == 3
MaxBatch == 2
MaxRetry == 2
MaxIdemUsers == 2
MaxDirUsers == 2
MaxChunks == 3
MaxEntries == 2
PageSize == 2
MaxLoads == 2

VARIABLES
  config,       \* the configuration object the running entry point holds:
                \* CONFIG itself in runSignatureManager, a copy in testDryRun
  pc,           \* position of runSignatureManager
  runNo,        \* number of the current invocation of runSignatureManager
  users,        \* allowedUsers, the list handed to processUsers
  phase,        \* per identity: its state in the per-identity state machine
  current,      \* per identity: the signature text read from the mailbox
  retries,      \* per identity: retries consumed so far
  reason,       \* per identity: the failure reason recorded for it
  batchStart,   \* index i of the batch loop: identities before it are done
  dispatch,     \* the groups dispatched so far, in order
  delays,       \* number of inter-batch sleeps performed in this run
  result,       \* what runSignatureManager returned
  keyState,     \* the SERVICE_ACCOUNT_KEY script property as last read
  allowed,      \* directory: the list getAllowedUsers yields when it succeeds
  prev,         \* the partition the previous invocation returned (the
                \* failed map by its keys)
  remote,       \* mailbox provider: the stored signature of each identity
  writeCalls,   \* mailbox provider: write invocations per identity, this run
  credCalls,    \* credential provider: acquisitions per identity, this run
  lastOutcome,  \* per identity: "" if its latest provider call succeeded,
                \* else that call's error message
  fUsers,       \* FilterSpec: the directory listing
  fRules,       \* FilterSpec: CONFIG.CLIENT, the rule set
  fOut,         \* FilterSpec: the list _filterUsers returned
  fpc,          \* FilterSpec: "input" before the call, "done" after it
  tTemplate,    \* TemplateSpec: the template text handed to applyTemplate
  tValues,      \* TemplateSpec: Object.entries(values), in insertion order
  tOut,         \* TemplateSpec: the text applyTemplate returned
  tpc,          \* TemplateSpec: "input" before the call, "done" after it
  CONFIG,       \* the shared global CONFIG object
  dryResult,    \* what testDryRun returned, in a list; empty before it returns
  dDirectory,   \* DirSpec: the identities the domain holds, in listing order
  dResponse,    \* DirSpec: the response to the directory request
  dRequests,    \* DirSpec: directory requests made
  dResets,      \* DirSpec: calls of service.reset()
  dOutcome,     \* DirSpec: what getAllowedUsers returned or threw
  dpc,          \* DirSpec: position of getAllowedUsers
  lFiles,       \* LoadSpec: the HTML files of the project, by name
  lTemplates,   \* LoadSpec: this.templates of the TemplateManager
  lId,          \* LoadSpec: the identifier loadTemplate is called with
  lCache,       \* LoadSpec: the script cache entry of the identifier
  lDrive,       \* LoadSpec: the Drive file of the identifier
  lOut,         \* LoadSpec: what the last loadTemplate returned or threw
  lLoaded,      \* LoadSpec: text loaded from Drive in this cache lifetime
  lReads,       \* LoadSpec: cache reads, cache writes and Drive reads
  lLoads,       \* LoadSpec: calls of loadTemplate
  pEnv,         \* PermSpec: the key property and what the services answer
  pEntry,       \* PermSpec: the function called
  pResults,     \* PermSpec: results of testAllPermissions
  pStatus,      \* PermSpec: what runAuthDiagnostics returned, in a list
  ppc           \* PermSpec: position of the call

runVars == <<config, pc, runNo, users, phase, current, retries, reason,
             batchStart, dispatch, delays, result, keyState, allowed, prev,
             remote, writeCalls, credCalls, lastOutcome>>
filterVars == <<fUsers, fRules, fOut, fpc>>
templateVars == <<tTemplate, tValues, tOut, tpc>>
dirVars == <<dDirectory, dResponse, dRequests, dResets, dOutcome, dpc>>
loadVars ==
  <<lFiles, lTemplates, lId, lCache, lDrive, lOut, lLoaded, lReads, lLoads>>
permVars == <<pEnv, pEntry, pResults, pStatus, ppc>>
auxVars == <<CONFIG, dryResult, dirVars, loadVars, permVars>>
vars == <<runVars, filterVars, templateVars, auxVars>>

(***************************************************************************)
(* Small helpers.                                                          *)
(***************************************************************************)
Range(s) == {s[i] : i \in 1..Len(s)}

Min(a, b) == IF a < b THEN a ELSE b


(***************************************************************************)
(* CONFIG and validateConfig.                                              *)
(***************************************************************************)
ApiValues == [BATCH_SIZE : 0..MaxBatch, BATCH_DELAY : {0, 1000},
              RETRY_ATTEMPTS : 0..MaxRetry, RETRY_DELAY : {1000}]

ConfigValues ==
  [CLIENT : [searchDomain : {"", "example.com"},
             adminEmail : {"admin@example.com"},
             defaultTemplateId : {"card"}],
   API : ApiValues,
   EXECUTION : [dryRun : BOOLEAN, verbose : {FALSE}]]

ValidateConfigErrorIgnoringBatchSize(c) ==
  IF c.CLIENT.searchDomain = "" THEN "Missing required config: CLIENT.searchDomain"
  ELSE IF c.API.BATCH_DELAY = 0 THEN "Missing required config: API.BATCH_DELAY"
  ELSE IF c.API.RETRY_ATTEMPTS = 0 THEN "Missing required config: API.RETRY_ATTEMPTS"
  ELSE ""

\* The message validateConfig throws for c, or "" when it returns c.
ValidateConfigError(c) ==
  IF c.CLIENT.searchDomain = "" THEN "Missing required config: CLIENT.searchDomain"
  ELSE IF c.CLIENT.adminEmail = "" THEN "Missing required config: CLIENT.adminEmail"
  ELSE IF c.CLIENT.defaultTemplateId = ""
    THEN "Missing required config: CLIENT.defaultTemplateId"
  ELSE IF c.API.BATCH_SIZE = 0 THEN "Missing required config: API.BATCH_SIZE"
  ELSE IF c.API.BATCH_DELAY = 0 THEN "Missing required config: API.BATCH_DELAY"
  ELSE IF c.API.RETRY_ATTEMPTS = 0 THEN "Missing required config: API.RETRY_ATTEMPTS"
  ELSE IF c.API.RETRY_DELAY = 0 THEN "Missing required config: API.RETRY_DELAY"
  ELSE IF c.API.BATCH_SIZE < 1 THEN "BATCH_SIZE must be at least 1"
  ELSE IF c.API.BATCH_DELAY < 0 THEN "BATCH_DELAY must be non-negative"
  ELSE IF c.API.RETRY_ATTEMPTS < 0 THEN "RETRY_ATTEMPTS must be non-negative"
  ELSE IF c.API.RETRY_DELAY < 0 THEN "RETRY_DELAY must be non-negative"
  ELSE ""

(***************************************************************************)
(* The identities of the pipeline and the signature text.                  *)
(***************************************************************************)
UserPool == <<"u1@example.com", "u2@example.com", "u3@example.com",
              "u4@example.com", "u5@example.com", "u6@example.com",
              "u7@example.com">>

Emails == {UserPool[i] : i \in 1..MaxUsers}

Terminal == {"Processed", "Skipped", "Failed"}

ReadError == "read failed"
CredentialDenied == "access denied"
RetryableErrors == {"rate limit exceeded", "backend error"}
PermanentErrors == {"bad request"}

\* The rendered signature of an identity.
Desired(e) == <<"<", "b", ">", e>>

\* What the mailbox holds after a write of `text`: the remote write path
\* adds formatting that does not affect rendering.
Stored(text) == text \o <<" ">>

\* What a mailbox may hold before the first run: another signature, or the
\* desired one as an earlier write left it.
InitialRemote(e) == {<<"<", "i", ">", e>>, Stored(Desired(e))}

NotSpace(c) == c # " "

\* ChangeDetector: the normalization both texts undergo before comparison.
Normalize(text) == SelectSeq(text, NotSpace)

NeedsUpdateRaw(cur, des) == cur # des

\* ChangeDetector.needsUpdate(current, desired).
NeedsUpdate(cur, des) == Normalize(cur) # Normalize(des)

(***************************************************************************)
(* AuthService.getGmailService(email): the message it throws, or "" when   *)
(* it returns a service for the identity.                                  *)
(***************************************************************************)
GetGmailServiceError(keyAvailable, email) ==
  IF ~keyAvailable THEN "Service account key is not available"
  ELSE IF email = "" THEN "Email address is required for Gmail service"
  ELSE ""

(***************************************************************************)
(* SignatureService.processUsers: batching.                                *)
(***************************************************************************)
\* The batch that starts at index i: users.slice(i, i + BATCH_SIZE).
BatchOf(i) == SubSeq(users, i + 1, Min(i + config.API.BATCH_SIZE, Len(users)))

BatchSettledAny == \E e \in Range(BatchOf(batchStart)) : phase[e] \in Terminal

\* The await on the batch: every member has reached a terminal state.
BatchSettled == \A e \in Range(BatchOf(batchStart)) : phase[e] \in Terminal

MoreBatchesAlways == TRUE

\* The test before the inter-batch sleep: another batch follows this one.
MoreBatches == batchStart + config.API.BATCH_SIZE < Len(users)

CanRetryOffByOne(used) == used <= config.API.RETRY_ATTEMPTS

\* The retry budget: `used` retries so far, RETRY_ATTEMPTS allowed.
CanRetry(used) == used < config.API.RETRY_ATTEMPTS

AfterCompareIgnoringDryRun(cur, des) ==
  IF ~NeedsUpdate(cur, des) THEN "Skipped" ELSE "CredentialPending"

AfterCompareCredentialFirst(cur, des) ==
  IF config.EXECUTION.dryRun /\ NeedsUpdate(cur, des) THEN "Processed"
  ELSE "CredentialPending"

\* The state an identity enters after comparing current and desired text.
AfterCompare(cur, des) ==
  IF ~NeedsUpdate(cur, des) THEN "Skipped"
  ELSE IF config.EXECUTION.dryRun THEN "Processed"
  ELSE "CredentialPending"

IdentityFailureAborts(e, msg) ==
  /\ pc' = "returned"
  /\ result' = [status |-> "ERROR", error |-> msg]
  /\ UNCHANGED <<phase, reason>>

\* An identity-level error: caught locally and recorded against the identity.
IdentityFailure(e, msg) ==
  /\ phase' = [phase EXCEPT ![e] = "Failed"]
  /\ reason' = [reason EXCEPT ![e] = msg]
  /\ UNCHANGED <<pc, result>>

\* The value processUsers resolves to: { processed, skipped, failed }.
ProcessUsersResult ==
  [processed |-> SelectSeq(users, LAMBDA e : phase[e] = "Processed"),
   skipped |-> SelectSeq(users, LAMBDA e : phase[e] = "Skipped"),
   failed |-> [e \in {x \in Range(users) : phase[x] = "Failed"} |-> reason[e]]]


(***************************************************************************)
(* The state before an invocation of runSignatureManager.                  *)
(***************************************************************************)
NoResult == [status |-> "NONE"]

FreshRun ==
  /\ pc = "idle"
  /\ users = <<>>
  /\ phase = [e \in Emails |-> "Pending"]
  /\ current = [e \in Emails |-> <<>>]
  /\ retries = [e \in Emails |-> 0]
  /\ reason = [e \in Emails |-> ""]
  /\ batchStart = 0
  /\ dispatch = <<>>
  /\ delays = 0
  /\ result = NoResult
  /\ keyState = "unread"
  /\ writeCalls = [e \in Emails |-> 0]
  /\ credCalls = [e \in Emails |-> 0]
  /\ lastOutcome = [e \in Emails |-> ""]

FilterIdle ==
  /\ fUsers = <<>>
  /\ fRules = <<>>
  /\ fOut = <<>>
  /\ fpc = "idle"

TemplateIdle ==
  /\ tTemplate = <<>>
  /\ tValues = <<>>
  /\ tOut = <<>>
  /\ tpc = "idle"

NoResponse == [code |-> 0, hasUsers |-> FALSE, users |-> <<>>]

NoOutcome == [kind |-> "none", list |-> <<>>, error |-> ""]

DirIdle ==
  /\ dDirectory = <<>>
  /\ dResponse = NoResponse
  /\ dRequests = 0
  /\ dResets = 0
  /\ dOutcome = NoOutcome
  /\ dpc = "idle"

NoReads == [cacheReads |-> 0, cacheWrites |-> 0, driveReads |-> 0]

LoadIdle ==
  /\ lFiles = <<>>
  /\ lTemplates = <<>>
  /\ lId = ""
  /\ lCache = <<>>
  /\ lDrive = <<>>
  /\ lOut = NoOutcome
  /\ lLoaded = <<>>
  /\ lReads = NoReads
  /\ lLoads = 0

NoKey == [state |-> "missing", fields |-> {}]

NoEnv == [key |-> NoKey, admin |-> "denied", gmail |-> "denied",
          external |-> "ok"]

\* results as testAllPermissions declares it
NoResults ==
  [serviceAccountValid |-> FALSE, adminDirectoryAccess |-> FALSE,
   gmailSettingsAccess |-> FALSE, externalRequestAccess |-> FALSE,
   errors |-> <<>>]

PermIdle ==
  /\ pEnv = NoEnv
  /\ pEntry = ""
  /\ pResults = NoResults
  /\ pStatus = <<>>
  /\ ppc = "idle"

\* The entry point works on the shared CONFIG; nothing else has run.
AuxIdle ==
  /\ CONFIG = config
  /\ dryResult = <<>>
  /\ DirIdle
  /\ LoadIdle
  /\ PermIdle

\* Before the first run: any CONFIG, a directory of at most maxN identities,
\* any mailbox contents.
RunInit(maxN) ==
  /\ config \in ConfigValues
  /\ runNo = 1
  /\ prev = NoResult
  /\ \E n \in 0..maxN :
       /\ allowed = SubSeq(UserPool, 1, n)
       /\ remote \in {r \in [Emails -> UNION {InitialRemote(e) : e \in Emails}] :
                        \A e \in Emails :
                          /\ r[e] \in InitialRemote(e)
                          /\ e \notin Range(SubSeq(UserPool, 1, n))
                               => r[e] = Stored(Desired(e))}
  /\ FreshRun
  /\ FilterIdle
  /\ TemplateIdle
  /\ AuxIdle

Init == RunInit(MaxUsers)

IdemInit == RunInit(MaxIdemUsers)

(***************************************************************************)
(* runSignatureManager.                                                    *)
(***************************************************************************)
ErrorResultWithoutReason(msg) == [status |-> "ERROR", error |-> ""]

\* The object returned from the catch block.
ErrorResult(msg) == [status |-> "ERROR", error |-> msg]

SuccessResultDroppingFailed(r) ==
  [status |-> "SUCCESS", dryRun |-> config.EXECUTION.dryRun,
   processed |-> r.processed, skipped |-> r.skipped, failed |-> <<>>]

\* The object returned on success: status, dryRun and the spread of result.
SuccessResult(r) ==
  [status |-> "SUCCESS", dryRun |-> config.EXECUTION.dryRun,
   processed |-> r.processed, skipped |-> r.skipped, failed |-> r.failed]

Return(value) ==
  /\ pc' = "returned"
  /\ result' = value

\* Lines up to the authorization gate: validateConfig, the script property,
\* JSON.parse, AuthService.hasAccess.
RSM_Begin ==
  /\ pc = "idle"
  /\ \E key \in {"missing", "invalid", "valid"}, access \in BOOLEAN :
       /\ keyState' = IF ValidateConfigError(config) # "" THEN keyState ELSE key
       /\ IF ValidateConfigError(config) # ""
            THEN Return(ErrorResult(ValidateConfigError(config)))
          ELSE IF key = "missing"
            THEN Return(ErrorResult(
                   "SERVICE_ACCOUNT_KEY not found in Script Properties"))
          ELSE IF key = "invalid"
            THEN Return(ErrorResult("Unexpected token in JSON"))
          ELSE IF ~access
            THEN Return([status |-> "AUTH_NEEDED"])
          ELSE pc' = "authorized" /\ UNCHANGED result
  /\ UNCHANGED <<config, runNo, users, phase, current, retries, reason,
                 batchStart, dispatch, delays, allowed, prev, remote,
                 writeCalls, credCalls, lastOutcome>>
  /\ UNCHANGED <<filterVars, templateVars, auxVars>>

RSM_GetAllowedUsersUngated ==
  /\ pc \in {"idle", "authorized"}
  /\ users' = allowed
  /\ pc' = "processing"
  /\ UNCHANGED <<config, runNo, phase, current, retries, reason, batchStart,
                 dispatch, delays, result, keyState, allowed, prev, remote,
                 writeCalls, credCalls, lastOutcome>>
  /\ UNCHANGED <<filterVars, templateVars, auxVars>>

\* userFilter.getAllowedUsers(): the list, or an error that ends the run.
RSM_GetAllowedUsers ==
  /\ pc = "authorized"
  /\ \E ok \in BOOLEAN :
       IF ok
         THEN /\ users' = allowed
              /\ pc' = "processing"
              /\ UNCHANGED result
         ELSE /\ Return(ErrorResult("Failed to fetch users"))
              /\ UNCHANGED users
  /\ UNCHANGED <<config, runNo, phase, current, retries, reason, batchStart,
                 dispatch, delays, keyState, allowed, prev, remote,
                 writeCalls, credCalls, lastOutcome>>
  /\ UNCHANGED <<filterVars, templateVars, auxVars>>

\* processUsers has resolved: the summary and the returned object.
RSM_Return ==
  /\ pc = "processing"
  /\ batchStart >= Len(users)
  /\ Return(SuccessResult(ProcessUsersResult))
  /\ UNCHANGED <<config, runNo, users, phase, current, retries, reason,
                 batchStart, dispatch, delays, keyState, allowed, prev,
                 remote, writeCalls, credCalls, lastOutcome>>
  /\ UNCHANGED <<filterVars, templateVars, auxVars>>

\* What is remembered of a returned result once the script is run again.
Remembered(r) ==
  IF r.status = "SUCCESS"
    THEN [status |-> r.status, processed |-> r.processed,
          skipped |-> r.skipped, failed |-> DOMAIN r.failed]
    ELSE [status |-> r.status]

\* The script is run a second time: same CONFIG, same directory, and the
\* mailboxes as the first run left them.
RSM_Again ==
  /\ pc = "returned"
  /\ runNo = 1
  /\ runNo' = runNo + 1
  /\ prev' = Remembered(result)
  /\ pc' = "idle"
  /\ users' = <<>>
  /\ phase' = [e \in Emails |-> "Pending"]
  /\ current' = [e \in Emails |-> <<>>]
  /\ retries' = [e \in Emails |-> 0]
  /\ reason' = [e \in Emails |-> ""]
  /\ batchStart' = 0
  /\ dispatch' = <<>>
  /\ delays' = 0
  /\ result' = NoResult
  /\ keyState' = "unread"
  /\ writeCalls' = [e \in Emails |-> 0]
  /\ credCalls' = [e \in Emails |-> 0]
  /\ lastOutcome' = [e \in Emails |-> ""]
  /\ UNCHANGED <<config, allowed, remote>>
  /\ UNCHANGED <<filterVars, templateVars, auxVars>>


(***************************************************************************)
(* SignatureService.processUsers: the batch loop and the per-identity      *)
(* state machine                                                           *)
(*   Pending -> Rendering -> Comparing -> Skipped | Processed (dry run)    *)
(*     | CredentialPending -> WritePending                                 *)
(*         -> Processed | RetryPending -> WritePending | Failed.           *)
(***************************************************************************)
Members == Range(BatchOf(batchStart))

\* Loop head with identities left: the next batch is dispatched as a whole.
PU_Dispatch ==
  /\ pc = "processing"
  /\ batchStart < Len(users)
  /\ pc' = "batch"
  /\ dispatch' = Append(dispatch, BatchOf(batchStart))
  /\ phase' = [e \in Emails |-> IF e \in Members THEN "Rendering" ELSE phase[e]]
  /\ UNCHANGED <<config, runNo, users, current, retries, reason, batchStart,
                 delays, result, keyState, allowed, prev, remote, writeCalls,
                 credCalls, lastOutcome>>
  /\ UNCHANGED <<filterVars, templateVars, auxVars>>

\* Render the desired text and read the current one from the mailbox.
PU_Read(e) ==
  /\ pc = "batch"
  /\ phase[e] = "Rendering"
  /\ \E ok \in BOOLEAN :
       IF ok
         THEN /\ current' = [current EXCEPT ![e] = remote[e]]
              /\ phase' = [phase EXCEPT ![e] = "Comparing"]
              /\ lastOutcome' = [lastOutcome EXCEPT ![e] = ""]
              /\ UNCHANGED <<reason, pc, result>>
         ELSE /\ IdentityFailure(e, ReadError)
              /\ lastOutcome' = [lastOutcome EXCEPT ![e] = ReadError]
              /\ UNCHANGED current
  /\ UNCHANGED <<config, runNo, users, retries, batchStart, dispatch, delays,
                 keyState, allowed, prev, remote, writeCalls, credCalls>>
  /\ UNCHANGED <<filterVars, templateVars, auxVars>>

\* Compare current and desired text and classify or go on to the write.
PU_Compare(e) ==
  /\ pc = "batch"
  /\ phase[e] = "Comparing"
  /\ phase' = [phase EXCEPT ![e] = AfterCompare(current[e], Desired(e))]
  /\ UNCHANGED <<config, pc, runNo, users, current, retries, reason,
                 batchStart, dispatch, delays, result, keyState, allowed,
                 prev, remote, writeCalls, credCalls, lastOutcome>>
  /\ UNCHANGED <<filterVars, templateVars, auxVars>>

\* Acquire the identity's write credential.
PU_Credential(e) ==
  /\ pc = "batch"
  /\ phase[e] = "CredentialPending"
  /\ credCalls' = [credCalls EXCEPT ![e] = @ + 1]
  /\ LET err == GetGmailServiceError(keyState = "valid", e) IN
       IF err # ""
         THEN /\ IdentityFailure(e, err)
              /\ lastOutcome' = [lastOutcome EXCEPT ![e] = err]
         ELSE \E granted \in BOOLEAN :
                IF granted
                  THEN /\ phase' = [phase EXCEPT ![e] = "WritePending"]
                       /\ lastOutcome' = [lastOutcome EXCEPT ![e] = ""]
                       /\ UNCHANGED <<reason, pc, result>>
                  ELSE /\ IdentityFailure(e, CredentialDenied)
                       /\ lastOutcome' =
                            [lastOutcome EXCEPT ![e] = CredentialDenied]
  /\ UNCHANGED <<config, runNo, users, current, retries, batchStart,
                 dispatch, delays, keyState, allowed, prev, remote,
                 writeCalls>>
  /\ UNCHANGED <<filterVars, templateVars, auxVars>>

\* One invocation of the provider's write, and what follows from its answer.
PU_Write(e) ==
  /\ pc = "batch"
  /\ phase[e] = "WritePending"
  /\ writeCalls' = [writeCalls EXCEPT ![e] = @ + 1]
  /\ \/ /\ remote' = [remote EXCEPT ![e] = Stored(Desired(e))]
          /\ phase' = [phase EXCEPT ![e] = "Processed"]
          /\ lastOutcome' = [lastOutcome EXCEPT ![e] = ""]
          /\ UNCHANGED <<retries, reason, pc, result>>
     \/ \E msg \in RetryableErrors :
          /\ lastOutcome' = [lastOutcome EXCEPT ![e] = msg]
          /\ UNCHANGED remote
          /\ IF CanRetry(retries[e])
               THEN /\ retries' = [retries EXCEPT ![e] = @ + 1]
                    /\ phase' = [phase EXCEPT ![e] = "RetryPending"]
                    /\ UNCHANGED <<reason, pc, result>>
               ELSE /\ IdentityFailure(e, msg)
                    /\ UNCHANGED retries
     \/ \E msg \in PermanentErrors :
          /\ lastOutcome' = [lastOutcome EXCEPT ![e] = msg]
          /\ IdentityFailure(e, msg)
          /\ UNCHANGED <<remote, retries>>
  /\ UNCHANGED <<config, runNo, users, current, batchStart, dispatch, delays,
                 keyState, allowed, prev, credCalls>>
  /\ UNCHANGED <<filterVars, templateVars, auxVars>>

\* The RETRY_DELAY sleep before the next attempt.
PU_RetryDelay(e) ==
  /\ pc = "batch"
  /\ phase[e] = "RetryPending"
  /\ phase' = [phase EXCEPT ![e] = "WritePending"]
  /\ UNCHANGED <<config, pc, runNo, users, current, retries, reason,
                 batchStart, dispatch, delays, result, keyState, allowed,
                 prev, remote, writeCalls, credCalls, lastOutcome>>
  /\ UNCHANGED <<filterVars, templateVars, auxVars>>

\* The batch has completed: sleep BATCH_DELAY if another batch follows, and
\* advance the loop index.
PU_BatchDone ==
  /\ pc = "batch"
  /\ BatchSettled
  /\ delays' = IF MoreBatches THEN delays + 1 ELSE delays
  /\ batchStart' = batchStart + config.API.BATCH_SIZE
  /\ pc' = "processing"
  /\ UNCHANGED <<config, runNo, users, phase, current, retries, reason,
                 dispatch, result, keyState, allowed, prev, remote,
                 writeCalls, credCalls, lastOutcome>>
  /\ UNCHANGED <<filterVars, templateVars, auxVars>>

RunNext ==
  \/ RSM_Begin
  \/ RSM_GetAllowedUsers
  \/ PU_Dispatch
  \/ \E e \in Emails : PU_Read(e)
  \/ \E e \in Emails : PU_Compare(e)
  \/ \E e \in Emails : PU_Credential(e)
  \/ \E e \in Emails : PU_Write(e)
  \/ \E e \in Emails : PU_RetryDelay(e)
  \/ PU_BatchDone
  \/ RSM_Return

Spec == Init /\ [][RunNext]_vars

IdemNext ==
  \/ RunNext
  \/ RSM_Again

IdemSpec == IdemInit /\ [][IdemNext]_vars


(***************************************************************************)
(* testDryRun, followed by an invocation of runSignatureManager.           *)
(***************************************************************************)
ForcedDryRunKeepingMode(c) == c

\* { ...CONFIG, EXECUTION: { dryRun: true, verbose: true } }
ForcedDryRun(c) == [c EXCEPT !.EXECUTION = [dryRun |-> TRUE, verbose |-> TRUE]]

\* What testDryRun returns from its catch block.
DryRunFalse == [returned |-> FALSE]

\* validateConfig on the copy, and the three service constructors, which
\* read the key and keep no error.
TDR_Begin ==
  /\ pc = "idle"
  /\ runNo = 1
  /\ IF ValidateConfigError(ForcedDryRun(CONFIG)) # ""
       THEN /\ pc' = "returned"
            /\ dryResult' = <<DryRunFalse>>
            /\ UNCHANGED <<config, keyState>>
       ELSE /\ pc' = "dryrun"
            /\ config' = ForcedDryRun(CONFIG)
            /\ keyState' \in {"missing", "invalid", "valid"}
            /\ UNCHANGED dryResult
  /\ UNCHANGED <<runNo, users, phase, current, retries, reason, batchStart,
                 dispatch, delays, result, allowed, prev, remote, writeCalls,
                 credCalls, lastOutcome>>
  /\ UNCHANGED <<filterVars, templateVars, CONFIG, dirVars, loadVars, permVars>>

\* userFilter.getAllowedUsers(): the list, or an error, which there is
\* whenever the key is not available.
TDR_GetAllowedUsers ==
  /\ pc = "dryrun"
  /\ \E ok \in BOOLEAN :
       IF ok /\ keyState = "valid"
         THEN /\ users' = allowed
              /\ pc' = "processing"
              /\ UNCHANGED dryResult
         ELSE /\ pc' = "returned"
              /\ dryResult' = <<DryRunFalse>>
              /\ UNCHANGED users
  /\ UNCHANGED <<config, runNo, phase, current, retries, reason, batchStart,
                 dispatch, delays, result, keyState, allowed, prev, remote,
                 writeCalls, credCalls, lastOutcome>>
  /\ UNCHANGED <<filterVars, templateVars, CONFIG, dirVars, loadVars, permVars>>

\* processUsers has resolved: testDryRun returns its result as it is.
TDR_Return ==
  /\ pc = "processing"
  /\ runNo = 1
  /\ batchStart >= Len(users)
  /\ pc' = "returned"
  /\ dryResult' = <<ProcessUsersResult>>
  /\ UNCHANGED <<config, runNo, users, phase, current, retries, reason,
                 batchStart, dispatch, delays, result, keyState, allowed, prev,
                 remote, writeCalls, credCalls, lastOutcome>>
  /\ UNCHANGED <<filterVars, templateVars, CONFIG, dirVars, loadVars, permVars>>

\* runSignatureManager is started after testDryRun has returned: it works
\* on CONFIG, with the directory and the mailboxes as they are.
RSM_AfterDryRun ==
  /\ pc = "returned"
  /\ runNo = 1
  /\ runNo' = runNo + 1
  /\ config' = CONFIG
  /\ pc' = "idle"
  /\ users' = <<>>
  /\ phase' = [e \in Emails |-> "Pending"]
  /\ current' = [e \in Emails |-> <<>>]
  /\ retries' = [e \in Emails |-> 0]
  /\ reason' = [e \in Emails |-> ""]
  /\ batchStart' = 0
  /\ dispatch' = <<>>
  /\ delays' = 0
  /\ keyState' = "unread"
  /\ writeCalls' = [e \in Emails |-> 0]
  /\ credCalls' = [e \in Emails |-> 0]
  /\ lastOutcome' = [e \in Emails |-> ""]
  /\ UNCHANGED <<result, allowed, prev, remote>>
  /\ UNCHANGED <<filterVars, templateVars, auxVars>>

DryNext ==
  \/ TDR_Begin
  \/ TDR_GetAllowedUsers
  \/ TDR_Return
  \/ RSM_AfterDryRun
  \/ runNo = 2 /\ RSM_Begin
  \/ runNo = 2 /\ RSM_GetAllowedUsers
  \/ PU_Dispatch
  \/ \E e \in Emails : PU_Read(e)
  \/ \E e \in Emails : PU_Compare(e)
  \/ \E e \in Emails : PU_Credential(e)
  \/ \E e \in Emails : PU_Write(e)
  \/ \E e \in Emails : PU_RetryDelay(e)
  \/ PU_BatchDone
  \/ runNo = 2 /\ RSM_Return

DrySpec == IdemInit /\ [][DryNext]_vars


(***************************************************************************)
(* UserFilterService: the rule set CONFIG.CLIENT and the directory users.  *)
(* "x" stands for the domain example.com, "xy" for another domain of which *)
(* it is a prefix; "/S" and "/T/I" are organizational unit paths.          *)
(***************************************************************************)
\* JavaScript's undefined, where a text and where a list is expected.
Undefined == <<"undefined">>
UndefinedList == <<Undefined>>

a_x == <<"a", "@", "x">>
b_x == <<"b", "@", "x">>
a_xy == <<"a", "@", "x", "y">>

DirEmails == {a_x, b_x, a_xy}

DirOUs == {<<"/", "S">>, <<"/", "T", "/", "I">>}

DirUsers ==
  [primaryEmail : DirEmails, orgUnitPath : DirOUs,
   archived : BOOLEAN, suspended : BOOLEAN]

RuleSets ==
  [searchDomain : {<<"x">>},
   includedUsers : {UndefinedList, <<>>, <<a_x>>, <<a_xy, b_x>>},
   excludedUsers : {<<>>, <<a_x>>},
   excludedOUs : {<<>>, <<<<"/", "T">>>>},
   includeArchived : BOOLEAN,
   includeSuspended : BOOLEAN]

RECURSIVE SeqsUpTo(_, _)
\* The sequences over S of length at most n.
SeqsUpTo(S, n) ==
  IF n = 0 THEN {<<>>}
  ELSE LET shorter == SeqsUpTo(S, n - 1) IN
         shorter \cup {Append(q, x) : q \in {r \in shorter : Len(r) = n - 1}, x \in S}

\* String.prototype.startsWith.
StartsWith(text, prefix) ==
  /\ Len(prefix) <= Len(text)
  /\ SubSeq(text, 1, Len(prefix)) = prefix

RECURSIVE Split(_, _)
\* String.prototype.split on a one-character separator.
Split(text, sep) ==
  IF \A i \in 1..Len(text) : text[i] # sep
    THEN <<text>>
    ELSE LET i == CHOOSE k \in 1..Len(text) :
                    text[k] = sep /\ \A j \in 1..(k - 1) : text[j] # sep
         IN <<SubSeq(text, 1, i - 1)>> \o Split(SubSeq(text, i + 1, Len(text)), sep)

\* array[1] of a JavaScript array held as a sequence.
Second(parts) == IF Len(parts) >= 2 THEN parts[2] ELSE Undefined

\* Array.prototype.includes.
Includes(list, x) == \E i \in 1..Len(list) : list[i] = x

\* `list && list.length > 0`.
NonEmptyList(list) == list # UndefinedList /\ Len(list) > 0

ShouldIncludeUserIncludedFirst(user, rules) ==
  IF NonEmptyList(rules.includedUsers)
    THEN Includes(rules.includedUsers, user.primaryEmail)
  ELSE IF ~rules.includeArchived /\ user.archived THEN FALSE
  ELSE IF ~rules.includeSuspended /\ user.suspended THEN FALSE
  ELSE IF Second(Split(user.primaryEmail, "@")) # rules.searchDomain THEN FALSE
  ELSE IF /\ NonEmptyList(rules.excludedUsers)
          /\ Includes(rules.excludedUsers, user.primaryEmail) THEN FALSE
  ELSE IF /\ NonEmptyList(rules.excludedOUs)
          /\ \E i \in 1..Len(rules.excludedOUs) :
               StartsWith(user.orgUnitPath, rules.excludedOUs[i]) THEN FALSE
  ELSE TRUE

ShouldIncludeUserIgnoringArchived(user, rules) ==
  IF ~rules.includeSuspended /\ user.suspended THEN FALSE
  ELSE IF Second(Split(user.primaryEmail, "@")) # rules.searchDomain THEN FALSE
  ELSE IF NonEmptyList(rules.includedUsers)
    THEN Includes(rules.includedUsers, user.primaryEmail)
  ELSE IF /\ NonEmptyList(rules.excludedUsers)
          /\ Includes(rules.excludedUsers, user.primaryEmail) THEN FALSE
  ELSE IF /\ NonEmptyList(rules.excludedOUs)
          /\ \E i \in 1..Len(rules.excludedOUs) :
               StartsWith(user.orgUnitPath, rules.excludedOUs[i]) THEN FALSE
  ELSE TRUE

ShouldIncludeUserExcludedFirst(user, rules) ==
  IF ~rules.includeArchived /\ user.archived THEN FALSE
  ELSE IF ~rules.includeSuspended /\ user.suspended THEN FALSE
  ELSE IF Second(Split(user.primaryEmail, "@")) # rules.searchDomain THEN FALSE
  ELSE IF /\ NonEmptyList(rules.excludedUsers)
          /\ Includes(rules.excludedUsers, user.primaryEmail) THEN FALSE
  ELSE IF /\ NonEmptyList(rules.excludedOUs)
          /\ \E i \in 1..Len(rules.excludedOUs) :
               StartsWith(user.orgUnitPath, rules.excludedOUs[i]) THEN FALSE
  ELSE IF NonEmptyList(rules.includedUsers)
    THEN Includes(rules.includedUsers, user.primaryEmail)
  ELSE TRUE

ShouldIncludeUserIgnoringExcludedUsers(user, rules) ==
  IF ~rules.includeArchived /\ user.archived THEN FALSE
  ELSE IF ~rules.includeSuspended /\ user.suspended THEN FALSE
  ELSE IF Second(Split(user.primaryEmail, "@")) # rules.searchDomain THEN FALSE
  ELSE IF NonEmptyList(rules.includedUsers)
    THEN Includes(rules.includedUsers, user.primaryEmail)
  ELSE IF /\ NonEmptyList(rules.excludedOUs)
          /\ \E i \in 1..Len(rules.excludedOUs) :
               StartsWith(user.orgUnitPath, rules.excludedOUs[i]) THEN FALSE
  ELSE TRUE

\* UserFilterService._shouldIncludeUser(user).
ShouldIncludeUser(user, rules) ==
  IF ~rules.includeArchived /\ user.archived THEN FALSE
  ELSE IF ~rules.includeSuspended /\ user.suspended THEN FALSE
  ELSE IF Second(Split(user.primaryEmail, "@")) # rules.searchDomain THEN FALSE
  ELSE IF NonEmptyList(rules.includedUsers)
    THEN Includes(rules.includedUsers, user.primaryEmail)
  ELSE IF /\ NonEmptyList(rules.excludedUsers)
          /\ Includes(rules.excludedUsers, user.primaryEmail) THEN FALSE
  ELSE IF /\ NonEmptyList(rules.excludedOUs)
          /\ \E i \in 1..Len(rules.excludedOUs) :
               StartsWith(user.orgUnitPath, rules.excludedOUs[i]) THEN FALSE
  ELSE TRUE

RECURSIVE MapEmailsReversed(_)
MapEmailsReversed(list) ==
  IF list = <<>> THEN <<>>
  ELSE MapEmailsReversed(Tail(list)) \o <<Head(list).primaryEmail>>

RECURSIVE MapEmails(_)
\* .map((user) => user.primaryEmail)
MapEmails(list) ==
  IF list = <<>> THEN <<>>
  ELSE <<Head(list).primaryEmail>> \o MapEmails(Tail(list))

\* UserFilterService._filterUsers(users): filter, then map to primaryEmail.
FilterUsers(list, rules) ==
  MapEmails(SelectSeq(list, LAMBDA u : ShouldIncludeUser(u, rules)))

(***************************************************************************)
(* FilterSpec: one call of _filterUsers on a directory listing.            *)
(***************************************************************************)
DefaultConfig ==
  [CLIENT |-> [searchDomain |-> "example.com",
               adminEmail |-> "admin@example.com",
               defaultTemplateId |-> "card"],
   API |-> [BATCH_SIZE |-> 1, BATCH_DELAY |-> 1000,
            RETRY_ATTEMPTS |-> 1, RETRY_DELAY |-> 1000],
   EXECUTION |-> [dryRun |-> FALSE, verbose |-> FALSE]]

PipelineIdle ==
  /\ config = DefaultConfig
  /\ runNo = 1
  /\ prev = NoResult
  /\ allowed = <<>>
  /\ remote = [e \in Emails |-> Stored(Desired(e))]
  /\ FreshRun
  /\ CONFIG = config
  /\ dryResult = <<>>

RunIdle ==
  /\ PipelineIdle
  /\ DirIdle
  /\ LoadIdle
  /\ PermIdle

FilterInit ==
  /\ fUsers \in SeqsUpTo(DirUsers, MaxDirUsers)
  /\ fRules \in RuleSets
  /\ fOut = <<>>
  /\ fpc = "input"
  /\ RunIdle
  /\ TemplateIdle

F_Filter ==
  /\ fpc = "input"
  /\ fOut' = FilterUsers(fUsers, fRules)
  /\ fpc' = "done"
  /\ UNCHANGED <<fUsers, fRules>>
  /\ UNCHANGED <<runVars, templateVars, auxVars>>

FilterNext == F_Filter

FilterSpec == FilterInit /\ [][FilterNext]_vars

(***************************************************************************)
(* OUSpec: _filterUsers under rule sets whose excludedOUs entries are OU    *)
(* names, as in the shipped CONFIG ("Test", "Service Accounts"), or OU      *)
(* paths.  "T" stands for Test, "/T/I" for /Test/Interns, "/Tg" for         *)
(* /Testing and "/S" for /Sales; orgUnitPath is always a full path.         *)
(***************************************************************************)
OUPaths == {<<"/", "T", "/", "I">>, <<"/", "T", "g">>, <<"/", "S">>}

OUDirUsers ==
  [primaryEmail : {a_x, b_x}, orgUnitPath : OUPaths,
   archived : {FALSE}, suspended : BOOLEAN]

OURuleSets ==
  [searchDomain : {<<"x">>},
   includedUsers : {<<>>, <<b_x>>},
   excludedUsers : {<<>>},
   excludedOUs : {<<<<"T">>>>, <<<<"/", "T">>>>, <<<<"S">>, <<"T">>>>},
   includeArchived : {FALSE},
   includeSuspended : {FALSE}]

OUInit ==
  /\ fUsers \in SeqsUpTo(OUDirUsers, MaxDirUsers)
  /\ fRules \in OURuleSets
  /\ fOut = <<>>
  /\ fpc = "input"
  /\ RunIdle
  /\ TemplateIdle

OUSpec == OUInit /\ [][FilterNext]_vars


(***************************************************************************)
(* DirSpec: UserFilterService.getAllowedUsers, from getAdminService to the *)
(* finally block.  The directory answers one request with at most PageSize *)
(* identities (maxResults); fUsers is the list _fetchUsers returned and    *)
(* fRules the rule set of this.config.                                     *)
(***************************************************************************)
DirNames == SubSeq(<<"a", "b", "c", "d", "e">>, 1, PageSize + 1)

DirectoryUsers ==
  [primaryEmail : {<<DirNames[i], "@", "x">> : i \in 1..Len(DirNames)},
   orgUnitPath : {<<"/", "S">>},
   archived : {FALSE},
   suspended : BOOLEAN]

\* The directory of a domain: no two identities share an address.
Directories ==
  {q \in SeqsUpTo(DirectoryUsers, PageSize + 1) :
     \A i, j \in 1..Len(q) : i # j => q[i].primaryEmail # q[j].primaryEmail}

DirRuleSets ==
  [searchDomain : {<<"x">>},
   includedUsers : {<<>>},
   excludedUsers : {<<>>, <<a_x>>},
   excludedOUs : {<<>>},
   includeArchived : {FALSE},
   includeSuspended : BOOLEAN]

ResponseCodes == {200, 403, 500}

\* The body of a 200 response to users.list with maxResults: the first page
\* of the directory, the users member being absent when there is none.
UsersListResponse(directory) ==
  [code |-> 200,
   hasUsers |-> directory # <<>>,
   users |-> SubSeq(directory, 1, Min(Len(directory), PageSize))]

ErrorResponse(code) == [code |-> code, hasUsers |-> FALSE, users |-> <<>>]

FetchFailsOnServerErrors(response) == response.code >= 500

\* response.getResponseCode() !== 200
FetchFails(response) == response.code # 200

\* data.users || []
UsersOrEmpty(response) == IF response.hasUsers THEN response.users ELSE <<>>

Thrown(msg) == [kind |-> "error", list |-> <<>>, error |-> msg]

Returned(list) == [kind |-> "list", list |-> list, error |-> ""]

DirInit ==
  /\ dDirectory \in Directories
  /\ dResponse = NoResponse
  /\ dRequests = 0
  /\ dResets = 0
  /\ dOutcome = NoOutcome
  /\ dpc = "start"
  /\ fUsers = <<>>
  /\ fRules \in DirRuleSets
  /\ fOut = <<>>
  /\ fpc = "idle"
  /\ PipelineIdle
  /\ LoadIdle
  /\ PermIdle
  /\ TemplateIdle

\* getAdminService and the access test: either throws, before the try.
GAU_GetService ==
  /\ dpc = "start"
  /\ \E keyAvailable \in BOOLEAN, access \in BOOLEAN :
       IF ~keyAvailable
         THEN /\ dOutcome' = Thrown("Service account key is not available")
              /\ dpc' = "done"
       ELSE IF ~access
         THEN /\ dOutcome' = Thrown("Admin service access denied")
              /\ dpc' = "done"
       ELSE /\ dpc' = "fetch"
            /\ UNCHANGED dOutcome
  /\ UNCHANGED <<dDirectory, dResponse, dRequests, dResets>>
  /\ UNCHANGED <<runVars, filterVars, templateVars, CONFIG, dryResult, loadVars, permVars>>

\* _fetchUsers: one request; a response other than 200 is thrown, else the
\* users of the body are handed to _filterUsers.
GAU_Fetch ==
  /\ dpc = "fetch"
  /\ dRequests' = dRequests + 1
  /\ \E response \in {UsersListResponse(dDirectory)}
                      \cup {ErrorResponse(c) : c \in ResponseCodes \ {200}} :
       /\ dResponse' = response
       /\ IF FetchFails(response)
            THEN /\ dOutcome' = Thrown("Failed to fetch users")
                 /\ dpc' = "finally"
                 /\ UNCHANGED <<fUsers, fpc>>
            ELSE /\ fUsers' = UsersOrEmpty(response)
                 /\ fpc' = "input"
                 /\ dpc' = "filter"
                 /\ UNCHANGED dOutcome
  /\ UNCHANGED <<dDirectory, dResets, fRules, fOut>>
  /\ UNCHANGED <<runVars, templateVars, CONFIG, dryResult, loadVars, permVars>>

\* _filterUsers has returned: its list is the value of the try block.
GAU_Filtered ==
  /\ dpc = "filter"
  /\ fpc = "done"
  /\ dOutcome' = Returned(fOut)
  /\ dpc' = "finally"
  /\ UNCHANGED <<dDirectory, dResponse, dRequests, dResets>>
  /\ UNCHANGED <<runVars, filterVars, templateVars, CONFIG, dryResult, loadVars, permVars>>

GAU_FinallyOnReturnOnly ==
  /\ dpc = "finally"
  /\ dResets' = IF dOutcome.kind = "list" THEN dResets + 1 ELSE dResets
  /\ dpc' = "done"
  /\ UNCHANGED <<dDirectory, dResponse, dRequests, dOutcome>>
  /\ UNCHANGED <<runVars, filterVars, templateVars, CONFIG, dryResult, loadVars, permVars>>

\* The finally block: service.reset(), then the return or the throw.
GAU_Finally ==
  /\ dpc = "finally"
  /\ dResets' = dResets + 1
  /\ dpc' = "done"
  /\ UNCHANGED <<dDirectory, dResponse, dRequests, dOutcome>>
  /\ UNCHANGED <<runVars, filterVars, templateVars, CONFIG, dryResult, loadVars, permVars>>

DirNext ==
  \/ GAU_GetService
  \/ GAU_Fetch
  \/ F_Filter
  \/ GAU_Filtered
  \/ GAU_Finally

DirSpec == DirInit /\ [][DirNext]_vars


(***************************************************************************)
(* LoadSpec: TemplateManager.loadTemplate.  A text that may be absent is a *)
(* list: empty when absent, else holding the text, which may be the empty  *)
(* text "".  Between two calls the cache entry may expire and the Drive    *)
(* file may be edited or removed.                                          *)
(***************************************************************************)
ProjectNames == {"template_modern", "card", "minimalist", "modern", "custom"}

Identifiers == {"template_modern", "modern", "custom"}

FileTexts == {"", "E"}

CacheTexts == {"", "C"}

DriveTexts == {"", "D", "F"}

Optional(texts) == {<<>>} \cup {<<t>> : t \in texts}

\* loadEmbeddedTemplates: "template_modern" in a try of its own; "card",
\* "minimalist" and "modern" in one try, left at the first missing file.
LoadEmbeddedTemplates(files) ==
  [template_modern |-> files["template_modern"],
   card |-> files["card"],
   minimalist |-> IF files["card"] # <<>> THEN files["minimalist"] ELSE <<>>,
   modern |-> IF files["card"] # <<>> /\ files["minimalist"] # <<>>
                THEN files["modern"] ELSE <<>>]

\* this.templates[templateIdentifier]
BuiltIn(templates, id) == IF id \in DOMAIN templates THEN templates[id] ELSE <<>>

\* if (x) of a text that may be absent
TruthyText(x) == x # <<>> /\ x[1] # ""

Load(out, cache, cacheReads, cacheWrites, driveReads) ==
  [out |-> out, cache |-> cache,
   reads |-> [cacheReads |-> cacheReads, cacheWrites |-> cacheWrites,
              driveReads |-> driveReads]]

LoadTemplateDriveFirst(id, templates, files, cache, drive) ==
  IF TruthyText(BuiltIn(templates, id))
    THEN Load(Returned(BuiltIn(templates, id)[1]), cache, 0, 0, 0)
  ELSE IF files[id] # <<>>
    THEN Load(Returned(files[id][1]), cache, 0, 0, 0)
  ELSE IF drive # <<>>
    THEN Load(Returned(drive[1]), drive, 0, 1, 1)
  ELSE IF TruthyText(cache)
    THEN Load(Returned(cache[1]), cache, 1, 0, 1)
  ELSE Load(Thrown("Failed to load template from Drive"), cache, 1, 0, 1)

LoadTemplateWithoutPut(id, templates, files, cache, drive) ==
  IF TruthyText(BuiltIn(templates, id))
    THEN Load(Returned(BuiltIn(templates, id)[1]), cache, 0, 0, 0)
  ELSE IF files[id] # <<>>
    THEN Load(Returned(files[id][1]), cache, 0, 0, 0)
  ELSE IF TruthyText(cache)
    THEN Load(Returned(cache[1]), cache, 1, 0, 0)
  ELSE IF drive # <<>>
    THEN Load(Returned(drive[1]), cache, 1, 0, 1)
  ELSE Load(Thrown("Failed to load template from Drive"), cache, 1, 0, 1)

\* loadTemplate: the built-in map, the embedded file, the cache, Drive.
LoadTemplate(id, templates, files, cache, drive) ==
  IF TruthyText(BuiltIn(templates, id))
    THEN Load(Returned(BuiltIn(templates, id)[1]), cache, 0, 0, 0)
  ELSE IF files[id] # <<>>
    THEN Load(Returned(files[id][1]), cache, 0, 0, 0)
  ELSE IF TruthyText(cache)
    THEN Load(Returned(cache[1]), cache, 1, 0, 0)
  ELSE IF drive # <<>>
    THEN Load(Returned(drive[1]), drive, 1, 1, 1)
  ELSE Load(Thrown("Failed to load template from Drive"), cache, 1, 0, 1)

LoadInit ==
  /\ lFiles \in [ProjectNames -> Optional(FileTexts)]
  /\ lTemplates = LoadEmbeddedTemplates(lFiles)
  /\ lId \in Identifiers
  /\ lCache \in Optional(CacheTexts)
  /\ lDrive \in Optional(DriveTexts)
  /\ lOut = NoOutcome
  /\ lLoaded = <<>>
  /\ lReads = NoReads
  /\ lLoads = 0
  /\ PipelineIdle
  /\ DirIdle
  /\ PermIdle
  /\ FilterIdle
  /\ TemplateIdle

L_LoadTemplate ==
  /\ lLoads < MaxLoads
  /\ lLoads' = lLoads + 1
  /\ LET r == LoadTemplate(lId, lTemplates, lFiles, lCache, lDrive)
     IN /\ lOut' = r.out
        /\ lCache' = r.cache
        /\ lReads' = r.reads
        /\ lLoaded' = IF r.reads.driveReads = 1 /\ r.out.kind = "list"
                         THEN <<r.out.list>> ELSE lLoaded
  /\ UNCHANGED <<lFiles, lTemplates, lId, lDrive>>
  /\ UNCHANGED <<runVars, filterVars, templateVars, CONFIG, dryResult, dirVars, permVars>>

\* The entry put with a lifetime of 21600 seconds expires.
L_CacheExpires ==
  /\ lCache # <<>>
  /\ lCache' = <<>>
  /\ lLoaded' = <<>>
  /\ UNCHANGED <<lFiles, lTemplates, lId, lDrive, lOut, lReads, lLoads>>
  /\ UNCHANGED <<runVars, filterVars, templateVars, CONFIG, dryResult, dirVars, permVars>>

\* The owner of the Drive file edits or removes it, or creates it.
L_DriveChanges ==
  /\ lLoads < MaxLoads
  /\ lDrive' \in Optional(DriveTexts) \ {lDrive}
  /\ UNCHANGED <<lFiles, lTemplates, lId, lCache, lOut, lLoaded, lReads, lLoads>>
  /\ UNCHANGED <<runVars, filterVars, templateVars, CONFIG, dryResult, dirVars, permVars>>

LoadNext ==
  \/ L_LoadTemplate
  \/ L_CacheExpires
  \/ L_DriveChanges

LoadSpec == LoadInit /\ [][LoadNext]_vars


(***************************************************************************)
(* PermSpec: AuthService.testAllPermissions, called on its own or by        *)
(* runAuthDiagnostics.  The SERVICE_ACCOUNT_KEY property is missing, not    *)
(* JSON, the JSON text null, or an object of which some fields are set; an  *)
(* OAuth2 service answers hasAccess() with true, with false, or throws.     *)
(***************************************************************************)
KeyFields == {"private_key", "client_email", "project_id", "client_id"}

KeyStates ==
  {[state |-> st, fields |-> {}] : st \in {"missing", "invalid_json", "json_null"}}
    \cup {[state |-> "object", fields |-> f] : f \in SUBSET KeyFields}

AccessOutcomes == {"granted", "denied", "throws"}

ExternalOutcomes == {"ok", "http_error", "throws"}

PermConfigs ==
  {c \in ConfigValues :
     /\ c.API.BATCH_DELAY = 1000
     /\ c.API.RETRY_ATTEMPTS = 1
     /\ ~c.EXECUTION.dryRun}

\* A token is granted only to a key that can sign the request.
CanSign(key) == {"private_key", "client_email"} \subseteq key.fields

\* this.serviceAccountKey of the constructor is truthy
KeyAvailable(key) == key.state = "object"

PushError(results, test) ==
  [results EXCEPT !.errors = Append(results.errors, test)]

\* checkServiceAccountKey inside its try
KeyTest(results, env) ==
  IF KeyAvailable(env.key) /\ KeyFields \subseteq env.key.fields
    THEN [results EXCEPT !.serviceAccountValid = TRUE]
    ELSE PushError(results, "serviceAccountKey")

AdminTestSilentOnDenied(results, env) ==
  IF ~KeyAvailable(env.key) \/ env.admin = "throws"
    THEN PushError(results, "adminDirectoryAccess")
  ELSE [results EXCEPT !.adminDirectoryAccess = (env.admin = "granted")]

\* getAdminService().hasAccess() inside its try
AdminTest(results, env) ==
  IF ~KeyAvailable(env.key) \/ env.admin = "throws"
    THEN PushError(results, "adminDirectoryAccess")
  ELSE IF env.admin = "granted"
    THEN [results EXCEPT !.adminDirectoryAccess = TRUE]
  ELSE PushError(results, "adminDirectoryAccess")

\* getGmailService(adminEmail).hasAccess() inside its try
GmailTest(results, env, email) ==
  IF GetGmailServiceError(KeyAvailable(env.key), email) # ""
       \/ env.gmail = "throws"
    THEN PushError(results, "gmailSettingsAccess")
  ELSE IF env.gmail = "granted"
    THEN [results EXCEPT !.gmailSettingsAccess = TRUE]
  ELSE PushError(results, "gmailSettingsAccess")

\* UrlFetchApp.fetch and getResponseCode() < 400 inside its try
ExternalTest(results, env) ==
  IF env.external = "ok"
    THEN [results EXCEPT !.externalRequestAccess = TRUE]
    ELSE PushError(results, "externalRequestAccess")

DiagnosticError(msg) == [status |-> "ERROR", message |-> msg, details |-> <<>>]

\* The checks of runAuthDiagnostics before the permission tests: the
\* message of the ERROR it returns, or "" when it goes on.
DiagnosticsCheckError(key, c) ==
  IF key.state = "missing"
    THEN "SERVICE_ACCOUNT_KEY not found in script properties"
  ELSE IF key.state = "invalid_json"
    THEN "SERVICE_ACCOUNT_KEY is not valid JSON"
  ELSE IF key.state = "json_null"
    THEN "Fatal error during diagnostics"
  ELSE IF ~({"client_email", "private_key", "project_id"} \subseteq key.fields)
    THEN "SERVICE_ACCOUNT_KEY is missing required fields"
  ELSE IF ValidateConfigError(c) # ""
    THEN "Configuration validation failed"
  ELSE ""

PermInit ==
  /\ pEnv \in {e \in [key : KeyStates, admin : AccessOutcomes,
                       gmail : AccessOutcomes, external : ExternalOutcomes] :
                 /\ e.admin = "granted" => CanSign(e.key)
                 /\ e.gmail = "granted" => CanSign(e.key)}
  /\ pEntry \in {"testAllPermissions", "runAuthDiagnostics"}
  /\ pResults = NoResults
  /\ pStatus = <<>>
  /\ ppc = IF pEntry = "runAuthDiagnostics" THEN "checks" ELSE "key"
  /\ config \in PermConfigs
  /\ CONFIG = config
  /\ dryResult = <<>>
  /\ runNo = 1
  /\ prev = NoResult
  /\ allowed = <<>>
  /\ remote = [e \in Emails |-> Stored(Desired(e))]
  /\ FreshRun
  /\ DirIdle
  /\ LoadIdle
  /\ FilterIdle
  /\ TemplateIdle

PermUnchanged ==
  UNCHANGED <<runVars, filterVars, templateVars, CONFIG, dryResult, dirVars,
              loadVars, pEnv, pEntry>>

\* runAuthDiagnostics up to the permission tests.
RAD_Checks ==
  /\ ppc = "checks"
  /\ LET msg == DiagnosticsCheckError(pEnv.key, CONFIG)
     IN IF msg # ""
          THEN /\ pStatus' = <<DiagnosticError(msg)>>
               /\ ppc' = "done"
          ELSE /\ ppc' = "key"
               /\ UNCHANGED pStatus
  /\ UNCHANGED pResults
  /\ PermUnchanged

TAP_Key ==
  /\ ppc = "key"
  /\ pResults' = KeyTest(NoResults, pEnv)
  /\ ppc' = "admin"
  /\ UNCHANGED pStatus
  /\ PermUnchanged

TAP_Admin ==
  /\ ppc = "admin"
  /\ pResults' = AdminTest(pResults, pEnv)
  /\ ppc' = "gmail"
  /\ UNCHANGED pStatus
  /\ PermUnchanged

TAP_Gmail ==
  /\ ppc = "gmail"
  /\ pResults' = GmailTest(pResults, pEnv, config.CLIENT.adminEmail)
  /\ ppc' = "external"
  /\ UNCHANGED pStatus
  /\ PermUnchanged

\* The last test; testAllPermissions returns results.
TAP_External ==
  /\ ppc = "external"
  /\ pResults' = ExternalTest(pResults, pEnv)
  /\ ppc' = IF pEntry = "runAuthDiagnostics" THEN "summary" ELSE "done"
  /\ UNCHANGED pStatus
  /\ PermUnchanged

\* runAuthDiagnostics: allPassed and the status it returns.
RAD_Summary ==
  /\ ppc = "summary"
  /\ LET allPassed == /\ pResults.serviceAccountValid
                      /\ pResults.adminDirectoryAccess
                      /\ pResults.gmailSettingsAccess
                      /\ pResults.externalRequestAccess
     IN pStatus' =
          IF allPassed
            THEN <<[status |-> "SUCCESS",
                    message |-> "All authentication checks passed",
                    details |-> <<pResults>>]>>
            ELSE <<[status |-> "WARNING",
                    message |-> "Some authentication checks failed",
                    details |-> <<pResults>>]>>
  /\ ppc' = "done"
  /\ UNCHANGED pResults
  /\ PermUnchanged

PermNext ==
  \/ RAD_Checks
  \/ TAP_Key
  \/ TAP_Admin
  \/ TAP_Gmail
  \/ TAP_External
  \/ RAD_Summary

PermSpec == PermInit /\ [][PermNext]_vars


(***************************************************************************)
(* TemplateManager.applyTemplate.  "{A}" stands for a placeholder such as  *)
(* {FirstName}, "{F}" for {PrimaryFont}, "{.}" for a placeholder holding a *)
(* regular-expression metacharacter besides its braces; "'S',A" stands for *)
(* the font list 'Segoe UI', Arial.                                        *)
(***************************************************************************)
\* JavaScript's null where a text is expected.
Null == <<"null">>

\* `value` in a boolean context, for a text, undefined or null.
Truthy(value) == value \notin {Undefined, Null, <<>>}

TokenA == <<"{", "A", "}">>
PrimaryFont == <<"{", "F", "}">>
TokenDot == <<"{", ".", "}">>

FontSingle == <<"'", "S", "'", ",", "A">>
FontDouble == <<"\"", "S", "\"", ",", "A">>

\* The pieces templates are put together from: tokens, plain text, and
\* fragments of a token.
Chunks == {TokenA, PrimaryFont, TokenDot, <<"x">>, <<"{">>, <<"A", "}">>}

RECURSIVE Flatten(_)
Flatten(pieces) ==
  IF pieces = <<>> THEN <<>> ELSE Head(pieces) \o Flatten(Tail(pieces))

Templates == {Flatten(q) : q \in SeqsUpTo(Chunks, MaxChunks)}

\* The entries of the values object: a placeholder and its value.
Entries ==
  [placeholder : {TokenA},
   value : {Undefined, Null, <<>>, <<"v">>, <<"$", "&">>, <<"$", "$">>,
            <<"$", "'">>, PrimaryFont}]
  \cup [placeholder : {PrimaryFont},
        value : {Undefined, FontSingle, FontDouble, <<"'", "S">>}]
  \cup [placeholder : {TokenDot}, value : {<<>>, <<"d">>}]

\* Object.entries of an object: no key twice.
ValueLists ==
  {q \in SeqsUpTo(Entries, MaxEntries) :
     \A i, j \in 1..Len(q) : i # j => q[i].placeholder # q[j].placeholder}

\* The characters of the class [.*+?^${}()|[\]\\].
EscapedChars ==
  {".", "*", "+", "?", "^", "$", "{", "}", "(", ")", "|", "[", "]", "\\"}

RECURSIVE EscapeRegExp(_)
\* placeholder.replace(/[.*+?^${}()|[\]\\]/g, "\\$&")
EscapeRegExp(text) ==
  IF text = <<>> THEN <<>>
  ELSE (IF Head(text) \in EscapedChars
          THEN <<"\\", Head(text)>> ELSE <<Head(text)>>)
       \o EscapeRegExp(Tail(text))

RECURSIVE CompileRegExp(_)
\* new RegExp(source, "g"): the atoms of the pattern.  An escaped character
\* and an ordinary one stand for themselves, an unescaped "." for any
\* character.
CompileRegExp(source) ==
  IF source = <<>> THEN <<>>
  ELSE IF Head(source) = "\\" /\ Len(source) >= 2
    THEN <<[any |-> FALSE, ch |-> source[2]]>>
         \o CompileRegExp(SubSeq(source, 3, Len(source)))
  ELSE IF Head(source) = "."
    THEN <<[any |-> TRUE, ch |-> "."]>> \o CompileRegExp(Tail(source))
  ELSE <<[any |-> FALSE, ch |-> Head(source)]>> \o CompileRegExp(Tail(source))

\* The pattern matches the text at position i.
MatchesAt(atoms, text, i) ==
  /\ i + Len(atoms) - 1 <= Len(text)
  /\ \A k \in 1..Len(atoms) : atoms[k].any \/ atoms[k].ch = text[i + k - 1]

RECURSIVE ExpandReplacement(_, _, _)
\* The replacement text of String.prototype.replace: $$ is a dollar sign, $&
\* the match, and $ before a single quote the text after the match.  ($ before
\* a backtick is the text before the match; no text here holds a backtick.
\* $1 to $99 stay as written, the placeholder pattern having no groups.)
ExpandReplacement(replacement, matched, after) ==
  IF replacement = <<>> THEN <<>>
  ELSE IF Head(replacement) = "$" /\ Len(replacement) >= 2
          /\ replacement[2] \in {"$", "&", "'"}
    THEN (CASE replacement[2] = "$" -> <<"$">>
            [] replacement[2] = "&" -> matched
            [] replacement[2] = "'" -> after)
         \o ExpandReplacement(SubSeq(replacement, 3, Len(replacement)),
                              matched, after)
  ELSE <<Head(replacement)>>
       \o ExpandReplacement(Tail(replacement), matched, after)

RECURSIVE ReplaceFrom(_, _, _, _)
\* text.replace(regex, replacement) from position i on, regex having the g
\* flag: the matches are taken from left to right and do not overlap.
ReplaceFrom(text, i, atoms, replacement) ==
  IF i > Len(text) THEN <<>>
  ELSE IF MatchesAt(atoms, text, i)
    THEN ExpandReplacement(replacement, SubSeq(text, i, i + Len(atoms) - 1),
                           SubSeq(text, i + Len(atoms), Len(text)))
         \o ReplaceFrom(text, i + Len(atoms), atoms, replacement)
  ELSE <<text[i]>> \o ReplaceFrom(text, i + 1, atoms, replacement)

ReplaceFirst(text, atoms, replacement) ==
  IF \E i \in 1..Len(text) : MatchesAt(atoms, text, i)
    THEN LET i == CHOOSE k \in 1..Len(text) :
                    /\ MatchesAt(atoms, text, k)
                    /\ \A j \in 1..(k - 1) : ~MatchesAt(atoms, text, j)
         IN SubSeq(text, 1, i - 1)
            \o ExpandReplacement(replacement, SubSeq(text, i, i + Len(atoms) - 1),
                                 SubSeq(text, i + Len(atoms), Len(text)))
            \o SubSeq(text, i + Len(atoms), Len(text))
    ELSE text

\* processedTemplate.replace(regex, replacement)
ReplaceAll(text, atoms, replacement) == ReplaceFrom(text, 1, atoms, replacement)

NormalizeFontQuotesOff(value) == value

RECURSIVE NormalizeFontQuotes(_)
\* value.replace(/\'([^\']+)\'/g, '"$1"'): every run of one or more
\* characters between two single quotes is put between double quotes.
NormalizeFontQuotes(value) ==
  IF value = <<>> THEN <<>>
  ELSE IF /\ Head(value) = "'"
          /\ \E j \in 3..Len(value) :
               value[j] = "'" /\ \A k \in 2..(j - 1) : value[k] # "'"
    THEN LET j == CHOOSE k \in 3..Len(value) :
                    value[k] = "'" /\ \A m \in 2..(k - 1) : value[m] # "'"
         IN <<"\"">> \o SubSeq(value, 2, j - 1) \o <<"\"">>
            \o NormalizeFontQuotes(SubSeq(value, j + 1, Len(value)))
  ELSE <<Head(value)>> \o NormalizeFontQuotes(Tail(value))

\* The value of an entry as the loop body uses it.
EntryValue(entry) ==
  IF entry.placeholder = PrimaryFont /\ Truthy(entry.value)
    THEN NormalizeFontQuotes(entry.value)
    ELSE entry.value

\* One turn of the forEach: every match of the placeholder is replaced by
\* `value || ""`.
ApplyEntry(text, entry) ==
  ReplaceAll(text, CompileRegExp(EscapeRegExp(entry.placeholder)),
             IF Truthy(EntryValue(entry)) THEN EntryValue(entry) ELSE <<>>)

RECURSIVE ApplyTemplate(_, _)
\* TemplateManager.applyTemplate(template, values).
ApplyTemplate(template, entries) ==
  IF entries = <<>> THEN template
  ELSE ApplyTemplate(ApplyEntry(template, Head(entries)), Tail(entries))

(***************************************************************************)
(* TemplateSpec: one call of applyTemplate.                                *)
(***************************************************************************)
TemplateInit ==
  /\ tTemplate \in Templates
  /\ tValues \in ValueLists
  /\ tOut = <<>>
  /\ tpc = "input"
  /\ RunIdle
  /\ FilterIdle

T_Apply ==
  /\ tpc = "input"
  /\ tOut' = ApplyTemplate(tTemplate, tValues)
  /\ tpc' = "done"
  /\ UNCHANGED <<tTemplate, tValues>>
  /\ UNCHANGED <<runVars, filterVars, auxVars>>

TemplateNext == T_Apply

TemplateSpec == TemplateInit /\ [][TemplateNext]_vars


(***************************************************************************)
(* Properties of the pipeline.                                             *)
(***************************************************************************)
Succeeded == pc = "returned" /\ result.status = "SUCCESS"

Live == ~config.EXECUTION.dryRun

Processed == Range(result.processed)
Skipped == Range(result.skipped)
Failed == DOMAIN result.failed

\* The number of batches of n identities, BATCH_SIZE to a batch.
BatchCount(n) == (n + config.API.BATCH_SIZE - 1) \div config.API.BATCH_SIZE

\* The batch, counted from 0, that the identity at position i belongs to.
BatchIndex(i) == (i - 1) \div config.API.BATCH_SIZE

\* The comparison of e's current and desired text has been made.
Compared(e) ==
  /\ phase[e] \notin {"Pending", "Rendering", "Comparing"}
  /\ current[e] # <<>>

\* C1: the returned result is a total partition of the input list: every
\* input identity is in exactly one of processed, skipped and failed, no
\* bucket holds anything else or anything twice, and
\* processed.length + skipped.length + |keys(failed)| = input.length.
C1_TotalPartition ==
  Succeeded =>
    /\ \A e \in Range(users) :
         \/ e \in Processed /\ e \notin Skipped /\ e \notin Failed
         \/ e \notin Processed /\ e \in Skipped /\ e \notin Failed
         \/ e \notin Processed /\ e \notin Skipped /\ e \in Failed
    /\ Processed \cup Skipped \cup Failed \subseteq Range(users)
    /\ Len(result.processed) + Len(result.skipped) + Cardinality(Failed)
         = Len(users)

C1_Witness ==
  /\ Succeeded
  /\ Len(users) = 3
  /\ Len(result.processed) = 1
  /\ Len(result.skipped) = 1
  /\ \E e \in Failed : result.failed[e] \in {CredentialDenied} \cup RetryableErrors

\* C2: a failure on one identity never aborts its batch or the run: once a
\* batch has been dispatched the run can always go on, it returns SUCCESS,
\* every identity of the list has then reached a terminal state, and exactly
\* the identities whose last provider call failed are entries of the failed
\* map, each with that call's message as its reason.
C2_FailureIsolation ==
  /\ pc \in {"processing", "batch"} => ENABLED RunNext
  /\ (pc = "returned" /\ dispatch # <<>>) =>
       /\ result.status = "SUCCESS"
       /\ \A e \in Range(users) :
            /\ phase[e] \in Terminal
            /\ lastOutcome[e] # "" <=> e \in Failed
            /\ e \in Failed =>
                 /\ result.failed[e] = lastOutcome[e]
                 /\ result.failed[e] \in {ReadError, CredentialDenied}
                      \cup RetryableErrors \cup PermanentErrors

C2_Witness ==
  /\ Succeeded
  /\ Len(dispatch) = 2
  /\ Len(dispatch[1]) = 2
  /\ dispatch[1][1] \in Failed
  /\ dispatch[1][2] \in Processed
  /\ dispatch[2][1] \in Processed

\* C3: no write is attempted more than RETRY_ATTEMPTS + 1 times; an identity
\* that failed with a retryable write error was written exactly
\* RETRY_ATTEMPTS + 1 times, its failed entry carries the last error's
\* message and it is not in processed; an identity whose write failed and
\* then succeeded on a retry is in processed and not in failed.
C3_RetryBudget ==
  \A e \in Range(users) :
    /\ writeCalls[e] <= config.API.RETRY_ATTEMPTS + 1
    /\ (phase[e] = "Failed" /\ reason[e] \in RetryableErrors) =>
         /\ writeCalls[e] = config.API.RETRY_ATTEMPTS + 1
         /\ reason[e] = lastOutcome[e]
    /\ Succeeded =>
         /\ (e \in Failed /\ result.failed[e] \in RetryableErrors) =>
              /\ writeCalls[e] = config.API.RETRY_ATTEMPTS + 1
              /\ result.failed[e] = lastOutcome[e]
              /\ e \notin Processed
         /\ (writeCalls[e] >= 2 /\ lastOutcome[e] = "") =>
              /\ e \in Processed
              /\ e \notin Failed

C3_Witness ==
  /\ Succeeded
  /\ config.API.RETRY_ATTEMPTS = 2
  /\ \E e \in Failed :
       /\ result.failed[e] \in RetryableErrors
       /\ writeCalls[e] = 3
  /\ \E e \in Processed : writeCalls[e] = 2

\* C4: the groups dispatched are the contiguous slices of the input of at
\* most BATCH_SIZE identities, in input order, and a batch is a barrier: no
\* identity has left Pending while an identity of an earlier batch is not
\* yet Processed, Skipped or Failed.
C4_BatchBarrier ==
  /\ \A k \in 1..Len(dispatch) :
       /\ dispatch[k] = SubSeq(users, (k - 1) * config.API.BATCH_SIZE + 1,
                               Min(k * config.API.BATCH_SIZE, Len(users)))
       /\ Len(dispatch[k]) \in 1..config.API.BATCH_SIZE
  /\ \A i, j \in 1..Len(users) :
       (BatchIndex(i) < BatchIndex(j) /\ phase[users[j]] # "Pending")
         => phase[users[i]] \in Terminal
  /\ \A j \in 1..Len(users) :
       phase[users[j]] # "Pending" => BatchIndex(j) < Len(dispatch)
  /\ Succeeded => Len(dispatch) = BatchCount(Len(users))

C4_Witness ==
  /\ pc = "batch"
  /\ config.API.BATCH_SIZE = 2
  /\ Len(users) = 3
  /\ Len(dispatch) = 2
  /\ Len(dispatch[1]) = 2
  /\ Len(dispatch[2]) = 1
  /\ phase[users[1]] = "Failed"
  /\ phase[users[2]] = "Processed"
  /\ writeCalls[users[2]] = 2
  /\ phase[users[3]] = "WritePending"

\* C5: in a dry run the write interface is never called, for any identity
\* and whatever the comparison finds, no mailbox changes, and every identity
\* for which the comparison detected a change is classified processed.
C5_DryRunNeverWrites ==
  config.EXECUTION.dryRun =>
    /\ \A e \in Emails : writeCalls[e] = 0 /\ credCalls[e] = 0
    /\ \A e \in Range(users) :
         (Compared(e) /\ NeedsUpdate(current[e], Desired(e)))
           => phase[e] = "Processed"
    /\ Succeeded =>
         \A e \in Range(users) :
           (current[e] # <<>> /\ NeedsUpdate(current[e], Desired(e)))
             => e \in Processed

C5_Witness ==
  /\ Succeeded
  /\ config.EXECUTION.dryRun
  /\ \E e \in Processed : NeedsUpdate(remote[e], Desired(e))
  /\ \E e \in Skipped : ~NeedsUpdate(remote[e], Desired(e))

\* C6: an identity whose current signature equals the desired one after
\* normalization is classified skipped with no write and no credential
\* acquisition; a credential is acquired only for an identity whose
\* comparison found a change in a live run, and at most once.
C6_SkipWithoutCredential ==
  \A e \in Range(users) :
    /\ (Compared(e) /\ Normalize(current[e]) = Normalize(Desired(e))) =>
         /\ phase[e] = "Skipped"
         /\ writeCalls[e] = 0
         /\ credCalls[e] = 0
    /\ phase[e] = "Skipped" =>
         /\ Normalize(remote[e]) = Normalize(Desired(e))
         /\ writeCalls[e] = 0
         /\ credCalls[e] = 0
    /\ credCalls[e] > 0 =>
         /\ credCalls[e] = 1
         /\ Live
         /\ Compared(e)
         /\ Normalize(current[e]) # Normalize(Desired(e))
    /\ writeCalls[e] > 0 => credCalls[e] = 1

C6_Witness ==
  /\ Succeeded
  /\ \E e \in Skipped :
       /\ current[e] = Stored(Desired(e))
       /\ current[e] # Desired(e)
       /\ credCalls[e] = 0
  /\ \E e \in Processed : credCalls[e] = 1

C8_InterBatchDelay ==
  /\ pc = "batch" => delays = Len(dispatch) - 1
  /\ delays <= Len(dispatch)
  /\ \A k \in 1..delays :
       \A i \in 1..Len(dispatch[k]) : phase[dispatch[k][i]] \in Terminal
  /\ Succeeded =>
       /\ Len(dispatch) = BatchCount(Len(users))
       /\ delays = IF Len(dispatch) >= 1 THEN Len(dispatch) - 1 ELSE 0

C8_Witness ==
  /\ Succeeded
  /\ config.API.BATCH_SIZE = 1
  /\ Len(dispatch) = 3
  /\ delays = 2


\* A required setting of CONFIG is missing (undefined, empty or 0).
MissingRequired ==
  \/ config.CLIENT.searchDomain = ""
  \/ config.CLIENT.adminEmail = ""
  \/ config.CLIENT.defaultTemplateId = ""
  \/ config.API.BATCH_SIZE = 0
  \/ config.API.BATCH_DELAY = 0
  \/ config.API.RETRY_ATTEMPTS = 0
  \/ config.API.RETRY_DELAY = 0

\* C19: a configuration error aborts the run before any identity is
\* processed: when validateConfig rejects CONFIG, runSignatureManager never
\* reaches the directory fetch or processUsers, reads no key, acquires no
\* credential, touches no mailbox, and returns the error to its caller.
C19_ConfigErrorAbortsFirst ==
  MissingRequired =>
    /\ pc \in {"idle", "returned"}
    /\ pc = "returned" =>
         /\ result.status = "ERROR"
         /\ result.error = ValidateConfigError(config)
         /\ result.error # ""
    /\ users = <<>>
    /\ dispatch = <<>>
    /\ keyState = "unread"
    /\ \A e \in Emails :
         /\ phase[e] = "Pending"
         /\ credCalls[e] = 0
         /\ writeCalls[e] = 0

C19_Witness ==
  /\ pc = "returned"
  /\ config.CLIENT.searchDomain # ""
  /\ config.API.BATCH_SIZE = 0
  /\ Len(allowed) > 0
  /\ result = [status |-> "ERROR",
               error |-> "Missing required config: API.BATCH_SIZE"]

\* The returned object is a full abort that carries a reason: an ERROR with
\* its message, or AUTH_NEEDED, whose status names the reason.
IsAbort(r) ==
  \/ DOMAIN r = {"status", "error"} /\ r.status = "ERROR" /\ r.error # ""
  \/ DOMAIN r = {"status"} /\ r.status = "AUTH_NEEDED"

\* The returned object is a complete partition of the submitted identities.
IsPartition(r) ==
  /\ {"status", "processed", "skipped", "failed"} \subseteq DOMAIN r
  /\ r.status = "SUCCESS"
  /\ Range(r.processed) \cup Range(r.skipped) \cup DOMAIN r.failed = Range(users)
  /\ Len(r.processed) + Len(r.skipped) + Cardinality(DOMAIN r.failed) = Len(users)

C20_WitnessPartition ==
  /\ pc = "returned"
  /\ IsPartition(result)
  /\ Len(users) = 3
  /\ DOMAIN result.failed # {}

\* C23: testDryRun always runs the pipeline with dryRun = true, whatever
\* CONFIG.EXECUTION.dryRun is, so it writes nothing and acquires no
\* credential; it leaves the shared CONFIG object unchanged, and a run of
\* runSignatureManager after it works in the mode CONFIG configures.
C23_DryRunEntryForcesAndRestores ==
  /\ []((runNo = 1 /\ pc \in {"dryrun", "processing", "batch"}) =>
          /\ config.EXECUTION.dryRun
          /\ \A e \in Emails : writeCalls[e] = 0 /\ credCalls[e] = 0)
  /\ []((runNo = 1 /\ pc = "returned") =>
          \A e \in Emails : writeCalls[e] = 0 /\ credCalls[e] = 0)
  /\ []((runNo = 2 /\ pc = "returned" /\ result.status = "SUCCESS") =>
          /\ config = CONFIG
          /\ result.dryRun = CONFIG.EXECUTION.dryRun)
  /\ [][CONFIG' = CONFIG]_vars

C23_Witness ==
  /\ runNo = 2
  /\ pc = "returned"
  /\ result.status = "SUCCESS"
  /\ ~CONFIG.EXECUTION.dryRun
  /\ ~result.dryRun
  /\ Len(dryResult) = 1
  /\ "processed" \in DOMAIN dryResult[1]
  /\ Len(dryResult[1].processed) > 0
  /\ Len(result.processed) > 0
  /\ \E e \in Emails : writeCalls[e] > 0

\* The settings are within what the range messages of validateConfig allow.
WithinStatedRanges ==
  /\ config.CLIENT.searchDomain # ""
  /\ config.CLIENT.adminEmail # ""
  /\ config.CLIENT.defaultTemplateId # ""
  /\ config.API.BATCH_SIZE >= 1
  /\ config.API.BATCH_DELAY >= 0
  /\ config.API.RETRY_ATTEMPTS >= 0
  /\ config.API.RETRY_DELAY >= 0

\* C25: validateConfig accepts every configuration whose required strings
\* are set, with BATCH_SIZE >= 1 and BATCH_DELAY, RETRY_ATTEMPTS and
\* RETRY_DELAY non-negative, zero included: the run gets past it to the key
\* read.
C25_ZeroIsAccepted ==
  (pc = "returned" /\ WithinStatedRanges) => keyState # "unread"

\* C27: runSignatureManager gates all identity work on authorization: a
\* result AUTH_NEEDED is returned straight from the access check, with no
\* directory fetch and no identity touched; processUsers starts only from
\* the directory step, on exactly the list getAllowedUsers returned.
C27_AuthorizationGate ==
  /\ []((pc = "returned" /\ result.status = "AUTH_NEEDED") =>
          /\ users = <<>>
          /\ dispatch = <<>>
          /\ \A e \in Emails :
               phase[e] = "Pending" /\ writeCalls[e] = 0 /\ credCalls[e] = 0)
  /\ [](pc \in {"processing", "batch"} => users = allowed)
  /\ []((pc = "returned" /\ result.status = "SUCCESS") => users = allowed)
  /\ [][(pc' = "returned" /\ result'.status = "AUTH_NEEDED") => pc = "idle"]_vars
  /\ [][(pc' = "processing" /\ pc \notin {"batch", "processing"}) => pc = "authorized"]_vars
  /\ [][pc' = "authorized" => (pc = "idle" /\ keyState' = "valid")]_vars

C27_Witness ==
  /\ pc = "returned"
  /\ result.status = "AUTH_NEEDED"
  /\ keyState = "valid"
  /\ Len(allowed) > 0
  /\ users = <<>>

C27_WitnessProcessed ==
  /\ pc = "batch"
  /\ Len(users) = 3
  /\ users = allowed

(***************************************************************************)
(* Properties of the filter.                                               *)
(***************************************************************************)
\* The domain part of an address: the text after its "@".
DomainPart(email) ==
  LET at == CHOOSE k \in 1..Len(email) : email[k] = "@"
  IN SubSeq(email, at + 1, Len(email))

\* C9: a non-empty includedUsers overrides every other rule: with
\* includedUsers = [a@x], filtering [a@x (suspended), b@x] yields [a@x]
\* whatever the other rules are.
C9_IncludedOverridesSuspended ==
  (/\ fpc = "done"
   /\ fRules.includedUsers = <<a_x>>
   /\ Len(fUsers) = 2
   /\ fUsers[1].primaryEmail = a_x
   /\ fUsers[1].suspended
   /\ ~fUsers[1].archived
   /\ fUsers[2].primaryEmail = b_x) =>
    fOut = <<a_x>>

\* C10: an identity whose e-mail domain part differs from searchDomain is
\* never in the filter output, under every rule set, also when includedUsers
\* lists that very address.
C10_ForeignDomainNeverIncluded ==
  fpc = "done" =>
    \A i \in 1..Len(fUsers) :
      DomainPart(fUsers[i].primaryEmail) # fRules.searchDomain
        => ~Includes(fOut, fUsers[i].primaryEmail)

C10_Witness ==
  /\ fpc = "done"
  /\ fRules.includedUsers = <<a_xy, b_x>>
  /\ Len(fUsers) = 2
  /\ fUsers[1].primaryEmail = a_xy
  /\ ~fUsers[1].archived
  /\ ~fUsers[1].suspended
  /\ fUsers[2].primaryEmail = b_x
  /\ fOut = <<b_x>>

\* The identity at position i is the only one of the listing with its address.
Alone(i) ==
  \A j \in 1..Len(fUsers) :
    j # i => fUsers[j].primaryEmail # fUsers[i].primaryEmail

\* The identity at position i passes the archived, suspended and domain checks.
PassesBasicChecks(i) ==
  /\ fUsers[i].archived => fRules.includeArchived
  /\ fUsers[i].suspended => fRules.includeSuspended
  /\ DomainPart(fUsers[i].primaryEmail) = fRules.searchDomain

IncludedUsersSet ==
  IF fRules.includedUsers = UndefinedList THEN {} ELSE Range(fRules.includedUsers)

C12_IncludedUsersShortCircuit ==
  (fpc = "done" /\ IncludedUsersSet # {}) =>
    \A i \in 1..Len(fUsers) :
      (Alone(i) /\ PassesBasicChecks(i)) =>
        (Includes(fOut, fUsers[i].primaryEmail)
           <=> fUsers[i].primaryEmail \in IncludedUsersSet)

C12_Witness ==
  /\ fpc = "done"
  /\ fRules.includedUsers = <<a_x>>
  /\ fRules.excludedUsers = <<a_x>>
  /\ fRules.excludedOUs = <<<<"/", "T">>>>
  /\ Len(fUsers) = 2
  /\ fUsers[1].primaryEmail = a_x
  /\ fUsers[1].orgUnitPath = <<"/", "T", "/", "I">>
  /\ PassesBasicChecks(1)
  /\ fUsers[2].primaryEmail = b_x
  /\ PassesBasicChecks(2)
  /\ fOut = <<a_x>>

\* C14: when includedUsers is empty or unset, an identity that passes the
\* archived, suspended and domain checks is in the output if and only if its
\* address is not in excludedUsers and its orgUnitPath starts with no entry
\* of excludedOUs.
C14_ExclusionsCumulative ==
  (fpc = "done" /\ IncludedUsersSet = {}) =>
    \A i \in 1..Len(fUsers) :
      (Alone(i) /\ PassesBasicChecks(i)) =>
        (Includes(fOut, fUsers[i].primaryEmail)
           <=> /\ fUsers[i].primaryEmail \notin Range(fRules.excludedUsers)
               /\ \A ou \in Range(fRules.excludedOUs) :
                    ~StartsWith(fUsers[i].orgUnitPath, ou))

C14_Witness ==
  /\ fpc = "done"
  /\ fRules.includedUsers = UndefinedList
  /\ fRules.excludedUsers = <<a_x>>
  /\ fRules.excludedOUs = <<<<"/", "T">>>>
  /\ Len(fUsers) = 2
  /\ fUsers[1].primaryEmail = a_x
  /\ fUsers[1].orgUnitPath = <<"/", "S">>
  /\ PassesBasicChecks(1)
  /\ fUsers[2].primaryEmail = b_x
  /\ fUsers[2].orgUnitPath = <<"/", "S">>
  /\ PassesBasicChecks(2)
  /\ fOut = <<b_x>>

\* C13: OU exclusion matches by textual prefix: with excludedOUs = ["Test"],
\* an identity whose orgUnitPath is "/Test/Interns" is not in the filter
\* output, and neither is one whose orgUnitPath is "/Testing".
C13_OUNameExcludesPaths ==
  (fpc = "done" /\ fRules.excludedOUs = <<<<"T">>>>) =>
    \A i \in 1..Len(fUsers) :
      fUsers[i].orgUnitPath \in {<<"/", "T", "/", "I">>, <<"/", "T", "g">>}
        => ~Includes(fOut, fUsers[i].primaryEmail)

\* The positions of the accepted identities, and the k-th of them.
AcceptedPositions == {i \in 1..Len(fUsers) : ShouldIncludeUser(fUsers[i], fRules)}

NthAccepted(k) ==
  CHOOSE i \in AcceptedPositions :
    Cardinality({j \in AcceptedPositions : j < i}) = k - 1

\* C15: the output of the filter is the list of addresses of exactly the
\* accepted identities in their input order, and filtering changes neither
\* the identity list nor the rule set.
C15_OrderPreservingSelection ==
  /\ [](fpc = "done" =>
          /\ Len(fOut) = Cardinality(AcceptedPositions)
          /\ \A k \in 1..Len(fOut) :
               fOut[k] = fUsers[NthAccepted(k)].primaryEmail)
  /\ [][fUsers' = fUsers /\ fRules' = fRules]_vars

C15_Witness ==
  /\ fpc = "done"
  /\ Len(fUsers) = 2
  /\ fUsers[1].primaryEmail = b_x
  /\ fUsers[2].primaryEmail = a_x
  /\ fOut = <<b_x, a_x>>


(***************************************************************************)
(* Properties of the renderer.                                             *)
(***************************************************************************)
\* The token occurs in the text.
Occurs(token, text) ==
  \E i \in 1..Len(text) : StartsWith(SubSeq(text, i, Len(text)), token)

\* The number of places of the text where the token occurs.
Occurrences(token, text) ==
  Cardinality({i \in 1..Len(text) : StartsWith(SubSeq(text, i, Len(text)), token)})

\* The same text with every single quote turned into a double quote.
DoubleQuoted(value) ==
  [i \in 1..Len(value) |-> IF value[i] = "'" THEN "\"" ELSE value[i]]

\* The entries with the single-quoted font list written with double quotes.
Requoted(entries) ==
  [k \in 1..Len(entries) |->
     IF entries[k].placeholder = PrimaryFont /\ entries[k].value = FontSingle
       THEN [placeholder |-> PrimaryFont, value |-> DoubleQuoted(FontSingle)]
       ELSE entries[k]]

\* C16: rendering a template with {PrimaryFont} set to the single-quoted
\* font list gives exactly the text that rendering it with the double-quoted
\* form gives, on every render, so a comparison of the two finds no change.
C16_FontQuotesByteIdentical ==
  (/\ tpc = "done"
   /\ \E k \in 1..Len(tValues) :
        tValues[k].placeholder = PrimaryFont /\ tValues[k].value = FontSingle) =>
    /\ tOut = ApplyTemplate(tTemplate, Requoted(tValues))
    /\ tOut = ApplyTemplate(tTemplate, tValues)
    /\ ~Occurs(<<"'">>, tOut)

C16_Witness ==
  /\ tpc = "done"
  /\ tTemplate = <<"x">> \o PrimaryFont \o PrimaryFont
  /\ tValues = <<[placeholder |-> PrimaryFont, value |-> FontSingle]>>
  /\ tOut = <<"x">> \o FontDouble \o FontDouble

\* Every brace of the text delimits a whole token.
BracesDelimitTokens(text) ==
  \A i \in 1..Len(text) :
    /\ text[i] = "{" =>
         i + 2 <= Len(text) /\ text[i + 1] \notin {"{", "}"} /\ text[i + 2] = "}"
    /\ text[i] = "}" =>
         i > 2 /\ text[i - 1] \notin {"{", "}"} /\ text[i - 2] = "{"

\* No value that is provided contains a brace.
ValuesBraceFree ==
  \A k \in 1..Len(tValues) :
    Truthy(tValues[k].value) =>
      \A i \in 1..Len(tValues[k].value) : tValues[k].value[i] \notin {"{", "}"}

\* C17, as stated: after rendering, no occurrence of the token of a
\* placeholder whose value is missing (undefined, null or the empty string)
\* remains in the output.
C17_NoTokenOfMissingValueRemains ==
  tpc = "done" =>
    \A k \in 1..Len(tValues) :
      ~Truthy(tValues[k].value) => ~Occurs(tValues[k].placeholder, tOut)

\* C17, amended: when every brace of the template delimits a whole token and
\* no provided value contains a brace, no occurrence of the token of a
\* placeholder whose value is missing remains in the output; and rendering
\* with that placeholder alone deletes each of its occurrences, putting the
\* empty string in its place.
C17_MissingValueRendersEmpty ==
  (tpc = "done" /\ BracesDelimitTokens(tTemplate) /\ ValuesBraceFree) =>
    \A k \in 1..Len(tValues) :
      ~Truthy(tValues[k].value) =>
        /\ ~Occurs(tValues[k].placeholder, tOut)
        /\ Len(tValues) = 1 =>
             Len(tOut) = Len(tTemplate)
                           - 3 * Occurrences(tValues[k].placeholder, tTemplate)

C17_Witness ==
  /\ tpc = "done"
  /\ tTemplate = TokenA \o <<"x">> \o TokenA
  /\ tValues = <<[placeholder |-> TokenA, value |-> Undefined]>>
  /\ tOut = <<"x">>

RECURSIVE LiteralReplaceAll(_, _, _)
\* The text with every occurrence of the token, from left to right, replaced
\* by the value as it is written.
LiteralReplaceAll(text, token, value) ==
  IF text = <<>> THEN <<>>
  ELSE IF StartsWith(text, token)
    THEN value \o LiteralReplaceAll(SubSeq(text, Len(token) + 1, Len(text)),
                                    token, value)
  ELSE <<Head(text)>> \o LiteralReplaceAll(Tail(text), token, value)

RECURSIVE LiteralRender(_, _)
LiteralRender(text, entries) ==
  IF entries = <<>> THEN text
  ELSE LiteralRender(
         LiteralReplaceAll(text, Head(entries).placeholder,
                           IF Truthy(EntryValue(Head(entries)))
                             THEN EntryValue(Head(entries)) ELSE <<>>),
         Tail(entries))

\* C18: the output of applyTemplate is the template text with every
\* occurrence of each provided placeholder replaced by its value, the
\* placeholder being taken literally, and all other text left untouched.
C18_LiteralGlobalReplacement ==
  tpc = "done" => tOut = LiteralRender(tTemplate, tValues)

\* C29: the result of applyTemplate does not depend on the order of the
\* entries of the values object: substituting the same placeholder/value
\* pairs in any other order gives the same output.
C29_EntryOrderIrrelevant ==
  tpc = "done" =>
    \A q \in ValueLists :
      (Len(q) = Len(tValues) /\ Range(q) = Range(tValues))
        => ApplyTemplate(tTemplate, q) = tOut


(***************************************************************************)
(* Properties of getAllowedUsers.                                          *)
(***************************************************************************)
\* C21: the directory fetch fails with an error on every non-success
\* response, and getAllowedUsers then returns no list; on a successful
\* response that holds no users the fetch yields the empty list and
\* getAllowedUsers returns the empty list.
C21_FetchErrorOrEmptyList ==
  /\ (dpc \in {"finally", "done"} /\ dRequests > 0 /\ dResponse.code # 200) =>
       /\ dOutcome.kind = "error"
       /\ dOutcome.error = "Failed to fetch users"
       /\ fpc = "idle"
  /\ (dpc \in {"filter", "finally", "done"} /\ dResponse.code = 200
        /\ ~dResponse.hasUsers) =>
       /\ fUsers = <<>>
       /\ dpc # "filter" => dOutcome = Returned(<<>>)
  /\ dOutcome.kind = "list" => dResponse.code = 200

C21_Witness ==
  /\ dpc = "done"
  /\ dResponse.code = 403
  /\ Len(dDirectory) = 2
  /\ dOutcome.kind = "error"

C21_WitnessEmpty ==
  /\ dpc = "done"
  /\ dResponse.code = 200
  /\ ~dResponse.hasUsers
  /\ dOutcome = Returned(<<>>)

\* C24: every identity of the directory that the filter rules accept is in
\* the list getAllowedUsers returns, however many identities the directory
\* holds, also more than one response page.
C24_EveryDirectoryIdentityConsidered ==
  (dpc = "done" /\ dOutcome.kind = "list") =>
    \A i \in 1..Len(dDirectory) :
      ShouldIncludeUser(dDirectory[i], fRules)
        => Includes(dOutcome.list, dDirectory[i].primaryEmail)

\* C26: when the service is not available or access is denied,
\* getAllowedUsers throws without a directory request and without a reset;
\* otherwise service.reset() is called exactly once, after the fetch and
\* the filter, whether they returned a list or threw.
C26_ResetExactlyOnceAfterFetch ==
  /\ [](dpc = "done" =>
          IF dRequests = 0
            THEN dResets = 0 /\ dOutcome.kind = "error"
            ELSE dResets = 1 /\ dRequests = 1)
  /\ [](dpc \in {"start", "fetch", "filter", "finally"} => dResets = 0)
  /\ [][dResets' # dResets =>
          /\ dpc = "finally" /\ dpc' = "done"
          /\ dRequests = 1
          /\ dOutcome.kind = "list" => fpc = "done"]_vars

C26_Witness ==
  /\ dpc = "done"
  /\ dResets = 1
  /\ dOutcome.kind = "error"
  /\ dResponse.code = 500

C26_WitnessDenied ==
  /\ dpc = "done"
  /\ dResets = 0
  /\ dRequests = 0
  /\ dOutcome = Thrown("Admin service access denied")


(***************************************************************************)
(* Properties of loadTemplate.                                             *)
(***************************************************************************)
FirstPresent(candidates) ==
  LET present == {i \in 1..Len(candidates) : candidates[i] # <<>>}
  IN IF present = {}
       THEN Thrown("Failed to load template from Drive")
       ELSE Returned(candidates[CHOOSE i \in present :
                                  \A j \in present : i <= j][1])

IsLoad == lLoads' = lLoads + 1

C22_WitnessNotFound ==
  /\ lLoads = 2
  /\ lOut.kind = "error"
  /\ lCache = <<>>
  /\ lLoaded = <<>>

\* C28: a non-empty text loaded from Drive is what every later loadTemplate
\* of the cache lifetime returns, without a Drive read; a load that fails
\* leaves the cache as it was; an identifier of the built-in map or of an
\* embedded file is answered without a cache read, a cache write or a Drive
\* read.
C28_CacheConsistentWithDrive ==
  [][IsLoad =>
       /\ TruthyText(lLoaded) =>
            /\ lOut' = Returned(lLoaded[1])
            /\ lReads'.driveReads = 0
       /\ lOut'.kind = "error" =>
            /\ lCache' = lCache
            /\ lReads'.cacheWrites = 0
       /\ (BuiltIn(lTemplates, lId) # <<>> \/ lFiles[lId] # <<>>) =>
            /\ lReads' = NoReads
            /\ lCache' = lCache]_vars

C28_Witness ==
  /\ lLoads = 2
  /\ TruthyText(lLoaded)
  /\ lDrive # lLoaded
  /\ lOut = Returned(lLoaded[1])
  /\ lReads.driveReads = 0


(***************************************************************************)
(* Properties of testAllPermissions and runAuthDiagnostics.                *)
(***************************************************************************)
AllFour(r) ==
  /\ r.serviceAccountValid
  /\ r.adminDirectoryAccess
  /\ r.gmailSettingsAccess
  /\ r.externalRequestAccess

Tested == ppc \in {"summary", "done"} /\ (pEntry = "runAuthDiagnostics" =>
                                             (ppc = "summary" \/ pStatus[1].details # <<>>))

KeyAndConfigChecksPass ==
  /\ pEnv.key.state = "object"
  /\ {"client_email", "private_key", "project_id"} \subseteq pEnv.key.fields
  /\ ValidateConfigError(CONFIG) = ""

\* C30: in every result of testAllPermissions the errors list is empty
\* exactly when the four flags are all true; runAuthDiagnostics returns a
\* status (it does not throw), which is SUCCESS exactly when the four flags
\* of the result it obtained are all true, WARNING exactly when the key and
\* configuration checks passed and some flag is false, and ERROR exactly
\* when a key or configuration check failed.
C30_ResultsAndErrorsAgree ==
  /\ Tested => (pResults.errors = <<>> <=> AllFour(pResults))
  /\ (ppc = "done" /\ pEntry = "runAuthDiagnostics") =>
       /\ Len(pStatus) = 1
       /\ pStatus[1].status \in {"SUCCESS", "WARNING", "ERROR"}
       /\ pStatus[1].status = "SUCCESS" <=>
            (pStatus[1].details # <<>> /\ AllFour(pStatus[1].details[1]))
       /\ pStatus[1].status = "WARNING" <=>
            (KeyAndConfigChecksPass /\ ~AllFour(pResults))
       /\ pStatus[1].status = "ERROR" <=> ~KeyAndConfigChecksPass
       /\ pStatus[1].details # <<>> => pStatus[1].details[1] = pResults
  /\ (ppc = "done" /\ pEntry = "testAllPermissions") => pStatus = <<>>

C30_Witness ==
  /\ ppc = "done"
  /\ pEntry = "runAuthDiagnostics"
  /\ pStatus[1].status = "WARNING"
  /\ pResults.errors = <<"serviceAccountKey">>
  /\ pResults.adminDirectoryAccess

C30_WitnessSuccess ==
  /\ ppc = "done"
  /\ pEntry = "runAuthDiagnostics"
  /\ pStatus[1].status = "SUCCESS"
  /\ pResults.errors = <<>>

C30_WitnessDirect ==
  /\ ppc = "done"
  /\ pEntry = "testAllPermissions"
  /\ Len(pResults.errors) = 4

=============================================================================
